---------------------------- MODULE Spec2Model ----------------------------
(***************************************************************************)
(* The parse-normalize-validate pipeline of pcb_renderer.                   *)
(*                                                                         *)
(* Numbers are fixed-point integers counting thousandths: the JSON number  *)
(* 10 is 10 * MM.  A product of two numbers is Mul(a, b).                  *)
(* A Python dict whose iteration order is observable (components, traces,  *)
(* vias, pins) is a sequence of [key, val] entries in insertion order.     *)
(* A call that raises is an outcome record with raised = TRUE.             *)
(***************************************************************************)
EXTENDS Integers, Sequences, FiniteSets, TLC

VARIABLES
    pc,       \* position of the program under check
    data,     \* the raw document object handed to the parser (mutated in place)
    orig,     \* the argument (document or coordinate list) as the caller built it
    parsed,   \* outcome of normalize_units / parse_board_data
    board,    \* the Board under validation, or NoneVal
    result,   \* outcome of validate_board
    raw,      \* argument of parse_coordinates; the point handed to contains_point
    out,      \* outcome of parse_coordinates, contains_point or is_self_intersecting
    poly,     \* outcome of Polygon(points=...)
    second,   \* outcome of a second call on the same Board or document object
    cli       \* main's arguments, locals, stderr, output file and exit code

vars == <<pc, data, orig, parsed, board, result, raw, out, poly, second, cli>>

\* ------------------------------------------------------------ numbers
\* 1.0 in fixed point (the MILLIMETER scale factor).
MM == 1000
\* 0.001 in fixed point.
MICRON_TO_MM == 1

Num(k) == k * MM

\* a * b of two fixed-point numbers, without leaving the 32-bit range.
Mul(a, b) == (a \div MM) * b + ((a % MM) * b) \div MM

\* ------------------------------------------------------------ values
NoneVal == [cls |-> "None"]
Truthy(v) == v # NoneVal

Point(x, y) == [cls |-> "Point", x |-> x, y |-> y]

\* JSON values as json.loads returns them.
JInt(n) == [cls |-> "int", n |-> n]
JFloat(n) == [cls |-> "float", n |-> n]
JStr(s) == [cls |-> "str", s |-> s]
JBool(b) == [cls |-> "bool", b |-> b]
JList(items) == [cls |-> "list", items |-> items]
JDict(items) == [cls |-> "dict", items |-> items]
Entry(key, val) == [key |-> key, val |-> val]

IsDict(v) == v.cls = "dict"
IsList(v) == v.cls = "list"
\* isinstance(v, (int, float)): bool is a subclass of int.
IsIntOrFloat(v) == v.cls \in {"int", "float", "bool"}
\* The number a Python number stands for (True is 1, False is 0).
NumOf(v) == IF v.cls = "bool" THEN (IF v.b THEN MM ELSE 0) ELSE v.n

\* bool(v) is False
Falsy(v) ==
    \/ v.cls = "None"
    \/ v.cls \in {"list", "dict"} /\ v.items = <<>>
    \/ v.cls = "str" /\ v.s = ""
    \/ v.cls \in {"int", "float"} /\ v.n = 0
    \/ v.cls = "bool" /\ ~v.b

\* key in d, d[key], d.get(key, default), d[key] = val
HasKey(d, key) == \E i \in DOMAIN d.items : d.items[i].key = key
Lookup(d, key) == d.items[CHOOSE i \in DOMAIN d.items : d.items[i].key = key].val
Get(d, key, default) == IF HasKey(d, key) THEN Lookup(d, key) ELSE default
Put(d, key, val) ==
    IF HasKey(d, key)
    THEN [d EXCEPT !.items = [i \in DOMAIN d.items |->
                                IF d.items[i].key = key THEN Entry(key, val) ELSE d.items[i]]]
    ELSE [d EXCEPT !.items = Append(d.items, Entry(key, val))]

Returned(v) == [raised |-> FALSE, exc |-> "", value |-> v]
Raised(e) == [raised |-> TRUE, exc |-> e, value |-> NoneVal]

RECURSIVE Flatten(_)
Flatten(ss) == IF ss = <<>> THEN <<>> ELSE Head(ss) \o Flatten(Tail(ss))

SeqMap(Op(_), s) == [i \in 1..Len(s) |-> Op(s[i])]

Range(s) == {s[i] : i \in DOMAIN s}

\* ------------------------------------------------------------ model objects

Polygon(points) == [cls |-> "Polygon", points |-> points]
Polyline(points) == [cls |-> "Polyline", points |-> points]
Layer(name, layer_type, index) ==
    [cls |-> "Layer", name |-> name, layer_type |-> layer_type, index |-> index]
Net(name) == [name |-> name, net_class |-> "SIGNAL"]
Transform(position, rotation) == [position |-> position, rotation |-> rotation, side |-> "FRONT"]
Pin(name, comp_name, net_name) == [name |-> name, comp_name |-> comp_name, net_name |-> net_name]
Component(name, transform, pins) == [name |-> name, transform |-> transform, pins |-> pins]
Trace(uid, net_name, layer_hash, path, width) ==
    [uid |-> uid, net_name |-> net_name, layer_hash |-> layer_hash, path |-> path, width |-> width]
Via(uid, net_name, diameter, hole_size, span) ==
    [uid |-> uid, net_name |-> net_name, diameter |-> diameter, hole_size |-> hole_size,
     span |-> span]

\* ------------------------------------------------------------ geometry.py

\* Polygon.bbox: (min_x, min_y, max_x, max_y)
bbox(polygon) ==
    LET xs == {polygon.points[i].x : i \in DOMAIN polygon.points}
        ys == {polygon.points[i].y : i \in DOMAIN polygon.points}
    IN  <<CHOOSE m \in xs : \A v \in xs : m <= v,
          CHOOSE m \in ys : \A v \in ys : m <= v,
          CHOOSE m \in xs : \A v \in xs : m >= v,
          CHOOSE m \in ys : \A v \in ys : m >= v>>

\* Polygon.edges: consecutive point pairs.
edges(polygon) ==
    [i \in 1..(IF Len(polygon.points) = 0 THEN 0 ELSE Len(polygon.points) - 1) |->
        <<polygon.points[i], polygon.points[i + 1]>>]

\* The crossing test with the second endpoint compared by >=.
RayCrossesInclusive(p1, p2, x, y) ==
    /\ (p1.y > y) # (p2.y >= y)
    /\ p2.y # p1.y
    /\ IF p2.y - p1.y > 0
          THEN (x - p1.x) * (p2.y - p1.y) < (p2.x - p1.x) * (y - p1.y)
          ELSE (x - p1.x) * (p2.y - p1.y) > (p2.x - p1.x) * (y - p1.y)

\* One edge of the ray cast: the horizontal ray from (x, y) crosses p1-p2.
\* x < (p2.x - p1.x) * (y - p1.y) / (p2.y - p1.y) + p1.x, cleared of the division.
RayCrosses(p1, p2, x, y) ==
    /\ (p1.y > y) # (p2.y > y)
    /\ IF p2.y - p1.y > 0
          THEN (x - p1.x) * (p2.y - p1.y) < (p2.x - p1.x) * (y - p1.y)
          ELSE (x - p1.x) * (p2.y - p1.y) > (p2.x - p1.x) * (y - p1.y)

\* contains_point walking range(1, n): the edge that closes the ring is left
\* out.
contains_point_without_closing_edge(polygon, point) ==
    IF Len(polygon.points) = 0
    THEN Raised("IndexError")
    ELSE Returned(
        Cardinality({i \in 2..(Len(polygon.points) - 1) :
            RayCrosses(polygon.points[i - 1], polygon.points[i], point.x, point.y)}) % 2 = 1)

\* Polygon.contains_point: parity of the crossings; points[0] of an empty
\* list raises IndexError.
contains_point(polygon, point) ==
    IF Len(polygon.points) = 0
    THEN Raised("IndexError")
    ELSE Returned(
        Cardinality({i \in 2..Len(polygon.points) :
            RayCrosses(polygon.points[i - 1], polygon.points[i], point.x, point.y)}) % 2 = 1)

\* ------------------------------------------------------------ validate.py

orient(p, q, r) == (q.y - p.y) * (r.x - q.x) - (q.x - p.x) * (r.y - q.y)

Min2(a, b) == IF a <= b THEN a ELSE b
Max2(a, b) == IF a >= b THEN a ELSE b

on_segment(p, q, r) ==
    /\ Min2(p.x, r.x) <= q.x /\ q.x <= Max2(p.x, r.x)
    /\ Min2(p.y, r.y) <= q.y /\ q.y <= Max2(p.y, r.y)

\* a * b < 0, by the signs of the factors.
ProductNegative(a, b) == (a < 0 /\ b > 0) \/ (a > 0 /\ b < 0)

segments_intersect(a1, a2, b1, b2) ==
    LET o1 == orient(a1, a2, b1)
        o2 == orient(a1, a2, b2)
        o3 == orient(b1, b2, a1)
        o4 == orient(b1, b2, a2)
    IN  \/ ProductNegative(o1, o2) /\ ProductNegative(o3, o4)
        \/ o1 = 0 /\ on_segment(a1, b1, a2)
        \/ o2 = 0 /\ on_segment(a1, b2, a2)
        \/ o3 = 0 /\ on_segment(b1, a1, b2)
        \/ o4 = 0 /\ on_segment(b1, a2, b2)

\* is_self_intersecting without the skip of edges that share a vertex.
is_self_intersecting_adjacent_too(polygon) ==
    LET es == edges(polygon)
    IN  \E i \in 1..Len(es) : \E j \in (i + 1)..Len(es) :
            segments_intersect(es[i][1], es[i][2], es[j][1], es[j][2])

\* is_self_intersecting with the straddling test alone, no collinear cases.
is_self_intersecting_crossing_only(polygon) ==
    LET es == edges(polygon)
    IN  \E i \in 1..Len(es) : \E j \in (i + 1)..Len(es) :
            LET a1 == es[i][1]
                a2 == es[i][2]
                b1 == es[j][1]
                b2 == es[j][2]
            IN  /\ ~(a1 = b1 \/ a1 = b2 \/ a2 = b1 \/ a2 = b2)
                /\ ProductNegative(orient(a1, a2, b1), orient(a1, a2, b2))
                /\ ProductNegative(orient(b1, b2, a1), orient(b1, b2, a2))

is_self_intersecting(polygon) ==
    LET es == edges(polygon)
    IN  \E i \in 1..Len(es) : \E j \in (i + 1)..Len(es) :
            LET a1 == es[i][1]
                a2 == es[i][2]
                b1 == es[j][1]
                b2 == es[j][2]
            IN  /\ ~(a1 = b1 \/ a1 = b2 \/ a2 = b1 \/ a2 = b2)
                /\ segments_intersect(a1, a2, b1, b2)

\* Every name a net or a layer can carry, in Python's string order.
NameOrder == <<"BOTTOM", "GND", "L1", "L2", "NET1", "TOP">>

\* sorted(names) of a set of names.
sorted(names) == SelectSeq(NameOrder, LAMBDA n : n \in names)

\* Sorting a sequence of integers (sorted(layer.index for ...)).
RECURSIVE InsertSorted(_, _)
InsertSorted(x, s) ==
    IF s = <<>> THEN <<x>>
    ELSE IF x < Head(s) THEN <<x>> \o s
    ELSE <<Head(s)>> \o InsertSorted(x, Tail(s))

RECURSIVE SortInts(_)
SortInts(s) == IF s = <<>> THEN <<>> ELSE InsertSorted(Head(s), SortInts(Tail(s)))

\* errors.ValidationError (severity is always ERROR, the message is left out).
ValidationError(code, json_path, context) ==
    [code |-> code, json_path |-> json_path, context |-> context]

\* board.stackup.get("layers", [])
StackupLayers(b) == Get(b.stackup, "layers", JList(<<>>)).items

\* net_names built from the first net only.
net_names_first_only(b) == {b.nets[i].name : i \in DOMAIN b.nets \cap {1}}

net_names(b) == {b.nets[i].name : i \in DOMAIN b.nets}

\* {layer.name for layer in ...}: a layer that is a plain dict has no
\* attribute name.
layer_names(b) ==
    IF \E i \in DOMAIN StackupLayers(b) : StackupLayers(b)[i].cls # "Layer"
    THEN Raised("AttributeError")
    ELSE Returned({StackupLayers(b)[i].name : i \in DOMAIN StackupLayers(b)})

\* The boundary check left out.
BoundaryNeverMissing(b) == <<>>

BoundaryMissing(b) ==
    IF ~Truthy(b.boundary) \/ Len(b.boundary.points) < 3
    THEN <<ValidationError("MISSING_BOUNDARY", <<"$", "boundary">>, NoneVal)>>
    ELSE <<>>

\* The four checks of one trace, each an if of its own.
TraceChecks(e, nets, layers) ==
    LET trace_id == e.key
        trace == e.val
    IN  <<
        (IF Truthy(trace.path) /\ Len(trace.path.points) < 2
         THEN <<ValidationError("MALFORMED_TRACE",
                    <<"$", "traces", trace_id, "path", "coordinates">>,
                    [trace_id |-> trace_id, point_count |-> Len(trace.path.points)])>>
         ELSE <<>>),
        (IF trace.net_name \notin nets
         THEN <<ValidationError("DANGLING_TRACE",
                    <<"$", "traces", trace_id, "net_name">>,
                    [trace_id |-> trace_id, referenced_net |-> trace.net_name,
                     available_nets |-> sorted(nets)])>>
         ELSE <<>>),
        (IF trace.layer_hash \notin layers
         THEN <<ValidationError("NONEXISTENT_LAYER",
                    <<"$", "traces", trace_id, "layer_hash">>,
                    [trace_id |-> trace_id, referenced_layer |-> trace.layer_hash,
                     available_layers |-> sorted(layers)])>>
         ELSE <<>>),
        (IF trace.width <= 0
         THEN <<ValidationError("NEGATIVE_WIDTH",
                    <<"$", "traces", trace_id, "width">>,
                    [trace_id |-> trace_id, width |-> trace.width])>>
         ELSE <<>>)
        >>

\* The trace checks as an if/elif chain: only the first violated one reports.
TraceErrorsFirstOnly(e, nets, layers) ==
    LET hits == SelectSeq(TraceChecks(e, nets, layers), LAMBDA c : c # <<>>)
    IN  IF hits = <<>> THEN <<>> ELSE hits[1]

TraceErrors(e, nets, layers) == Flatten(TraceChecks(e, nets, layers))

\* via.span.get(key)
SpanGet(span, key) == IF key \in DOMAIN span THEN span[key] ELSE "None"

\* The via checks with the geometry test strict (hole_size > diameter).
ViaErrorsHoleStrictlyLarger(e, nets, layers) ==
    LET via_id == e.key
        via == e.val
        start == SpanGet(via.span, "start_layer")
        end == SpanGet(via.span, "end_layer")
    IN  (IF via.net_name \notin nets
         THEN <<ValidationError("NONEXISTENT_NET",
                    <<"$", "vias", via_id, "net_name">>,
                    [via_id |-> via_id, referenced_net |-> via.net_name,
                     available_nets |-> sorted(nets)])>>
         ELSE <<>>)
        \o
        (IF via.hole_size > via.diameter
         THEN <<ValidationError("INVALID_VIA_GEOMETRY",
                    <<"$", "vias", via_id, "hole_size">>,
                    [via_id |-> via_id, hole_size |-> via.hole_size,
                     diameter |-> via.diameter])>>
         ELSE <<>>)
        \o
        (IF start \notin layers \/ end \notin layers
         THEN <<ValidationError("NONEXISTENT_LAYER",
                    <<"$", "vias", via_id, "span">>,
                    [via_id |-> via_id, start_layer |-> start, end_layer |-> end,
                     available_layers |-> sorted(layers)])>>
         ELSE <<>>)

ViaErrors(e, nets, layers) ==
    LET via_id == e.key
        via == e.val
        start == SpanGet(via.span, "start_layer")
        end == SpanGet(via.span, "end_layer")
    IN  (IF via.net_name \notin nets
         THEN <<ValidationError("NONEXISTENT_NET",
                    <<"$", "vias", via_id, "net_name">>,
                    [via_id |-> via_id, referenced_net |-> via.net_name,
                     available_nets |-> sorted(nets)])>>
         ELSE <<>>)
        \o
        (IF via.hole_size >= via.diameter
         THEN <<ValidationError("INVALID_VIA_GEOMETRY",
                    <<"$", "vias", via_id, "hole_size">>,
                    [via_id |-> via_id, hole_size |-> via.hole_size,
                     diameter |-> via.diameter])>>
         ELSE <<>>)
        \o
        (IF start \notin layers \/ end \notin layers
         THEN <<ValidationError("NONEXISTENT_LAYER",
                    <<"$", "vias", via_id, "span">>,
                    [via_id |-> via_id, start_layer |-> start, end_layer |-> end,
                     available_layers |-> sorted(layers)])>>
         ELSE <<>>)

\* The empty-board check asking for no vias as well.
EmptyBoardCountingVias(b) ==
    IF b.components = <<>> /\ b.traces = <<>> /\ b.vias = <<>>
    THEN <<ValidationError("EMPTY_BOARD", <<"$">>, NoneVal)>>
    ELSE <<>>

EmptyBoard(b) ==
    IF b.components = <<>> /\ b.traces = <<>>
    THEN <<ValidationError("EMPTY_BOARD", <<"$">>, NoneVal)>>
    ELSE <<>>

SelfIntersection(b) ==
    IF Truthy(b.boundary) /\ is_self_intersecting(b.boundary)
    THEN <<ValidationError("SELF_INTERSECTING_BOUNDARY",
                <<"$", "boundary", "coordinates">>, NoneVal)>>
    ELSE <<>>

\* The pin checks with a null net reference taken as unconnected.
PinErrorsSkippingUnconnected(comp_name, comp, p, nets) ==
    LET pin_name == p.key
        pin == p.val
    IN  (IF pin.comp_name # comp.name
         THEN <<ValidationError("INVALID_PIN_REFERENCE",
                    <<"$", "components", comp_name, "pins", pin_name, "comp_name">>,
                    [component |-> comp_name, pin |-> pin_name,
                     comp_name |-> pin.comp_name])>>
         ELSE <<>>)
        \o
        (IF pin.net_name \notin nets /\ pin.net_name # "None"
         THEN <<ValidationError("NONEXISTENT_NET",
                    <<"$", "components", comp_name, "pins", pin_name, "net_name">>,
                    [component |-> comp_name, pin |-> pin_name,
                     referenced_net |-> pin.net_name, available_nets |-> sorted(nets)])>>
         ELSE <<>>)

PinErrors(comp_name, comp, p, nets) ==
    LET pin_name == p.key
        pin == p.val
    IN  (IF pin.comp_name # comp.name
         THEN <<ValidationError("INVALID_PIN_REFERENCE",
                    <<"$", "components", comp_name, "pins", pin_name, "comp_name">>,
                    [component |-> comp_name, pin |-> pin_name,
                     comp_name |-> pin.comp_name])>>
         ELSE <<>>)
        \o
        (IF pin.net_name \notin nets
         THEN <<ValidationError("NONEXISTENT_NET",
                    <<"$", "components", comp_name, "pins", pin_name, "net_name">>,
                    [component |-> comp_name, pin |-> pin_name,
                     referenced_net |-> pin.net_name, available_nets |-> sorted(nets)])>>
         ELSE <<>>)

ComponentErrors(b, e, nets) ==
    LET comp_name == e.key
        comp == e.val
    IN  (IF ~contains_point(b.boundary, comp.transform.position).value
         THEN <<ValidationError("COMPONENT_OUTSIDE_BOUNDARY",
                    <<"$", "components", comp_name, "transform", "position">>,
                    [component |-> comp_name,
                     position |-> <<comp.transform.position.x, comp.transform.position.y>>])>>
         ELSE <<>>)
        \o
        (IF ~(0 <= comp.transform.rotation /\ comp.transform.rotation <= Num(360))
         THEN <<ValidationError("INVALID_ROTATION",
                    <<"$", "components", comp_name, "transform", "rotation">>,
                    [component |-> comp_name, rotation |-> comp.transform.rotation])>>
         ELSE <<>>)
        \o
        Flatten([i \in 1..Len(comp.pins) |-> PinErrors(comp_name, comp, comp.pins[i], nets)])

\* The component block with only the containment check under the boundary
\* guard: rotation and pin checks run on a board without boundary too.
ComponentBlockRotationUnguarded(b, nets) ==
    IF Truthy(b.boundary)
    THEN Flatten([i \in 1..Len(b.components) |-> ComponentErrors(b, b.components[i], nets)])
    ELSE SelectSeq(
            Flatten([i \in 1..Len(b.components) |->
                ComponentErrors([b EXCEPT !.boundary = Polygon(<<Point(0, 0)>>)],
                                b.components[i], nets)]),
            LAMBDA e : e.code # "COMPONENT_OUTSIDE_BOUNDARY")

\* The component block: skipped without a boundary.
ComponentBlock(b, nets) ==
    IF Truthy(b.boundary)
    THEN Flatten([i \in 1..Len(b.components) |-> ComponentErrors(b, b.components[i], nets)])
    ELSE <<>>

\* The comparison asking only that no index is skipped: a repeated index
\* passes.
ContiguousNoGap(indices) ==
    \A i \in DOMAIN indices : i > 1 => indices[i] - indices[i - 1] <= 1

\* range(indices[0], indices[0] + len(indices))
Contiguous(indices) == \A i \in DOMAIN indices : indices[i] = indices[1] + (i - 1)

StackupErrors(b) ==
    IF ~HasKey(b.stackup, "layers") \/ Falsy(Get(b.stackup, "layers", NoneVal))
    THEN <<ValidationError("MALFORMED_STACKUP", <<"$", "stackup", "layers">>, NoneVal)>>
    ELSE LET indices == SortInts([i \in 1..Len(StackupLayers(b)) |-> StackupLayers(b)[i].index])
         IN  IF ~Contiguous(indices)
             THEN <<ValidationError("MALFORMED_STACKUP", <<"$", "stackup", "layers">>,
                        [indices |-> indices])>>
             ELSE <<>>

\* validate_board with the self-intersection check moved up to the boundary
\* block, ahead of the trace loop.
validate_board_boundary_first(b) ==
    LET ln == layer_names(b)
        nets == net_names(b)
    IN  IF ln.raised THEN Raised(ln.exc)
        ELSE IF Truthy(b.boundary) /\ b.components # <<>>
                /\ contains_point(b.boundary, b.components[1].val.transform.position).raised
        THEN Raised("IndexError")
        ELSE Returned(
            BoundaryMissing(b)
            \o SelfIntersection(b)
            \o Flatten([i \in 1..Len(b.traces) |-> TraceErrors(b.traces[i], nets, ln.value)])
            \o Flatten([i \in 1..Len(b.vias) |-> ViaErrors(b.vias[i], nets, ln.value)])
            \o EmptyBoard(b)
            \o ComponentBlock(b, nets)
            \o StackupErrors(b))

\* validate_board.  The two places it can raise: building layer_names from
\* layers that are plain dicts, and contains_point on a boundary whose point
\* list is empty (reached only when a component is iterated).
validate_board(b) ==
    LET ln == layer_names(b)
        nets == net_names(b)
    IN  IF ln.raised THEN Raised(ln.exc)
        ELSE IF Truthy(b.boundary) /\ b.components # <<>>
                /\ contains_point(b.boundary, b.components[1].val.transform.position).raised
        THEN Raised("IndexError")
        ELSE Returned(
            BoundaryMissing(b)
            \o Flatten([i \in 1..Len(b.traces) |-> TraceErrors(b.traces[i], nets, ln.value)])
            \o Flatten([i \in 1..Len(b.vias) |-> ViaErrors(b.vias[i], nets, ln.value)])
            \o EmptyBoard(b)
            \o SelfIntersection(b)
            \o ComponentBlock(b, nets)
            \o StackupErrors(b))


\* ------------------------------------------------------------ model construction

\* Point(x=..., y=...): pydantic coerces a number to float and rejects
\* anything else with a ValidationError (a subclass of ValueError).
NewPoint(xv, yv) ==
    IF IsIntOrFloat(xv) /\ IsIntOrFloat(yv)
    THEN Returned(Point(NumOf(xv), NumOf(yv)))
    ELSE Raised("ValidationError")

\* Polygon.validate_polygon appending the closing point unconditionally.
validate_polygon_always_append(value) ==
    IF Len(value) < 3 THEN Raised("ValidationError")
    ELSE Returned(Append(value, value[1]))

\* Polygon.validate_polygon (with Field(min_length=3)): at least 3 points,
\* the first appended when the ring is open.
validate_polygon(value) ==
    IF Len(value) < 3 THEN Raised("ValidationError")
    ELSE IF value[1] # value[Len(value)] THEN Returned(Append(value, value[1]))
    ELSE Returned(value)

\* Polygon(points=value)
NewPolygon(value) ==
    IF validate_polygon(value).raised THEN Raised("ValidationError")
    ELSE Returned(Polygon(validate_polygon(value).value))

\* ValueError and its subclasses (pydantic's ValidationError is one).
IsValueError(exc) == exc \in {"ValueError", "ValidationError"}

\* ------------------------------------------------------------ parse.py

\* _scale_value without the bool guard: True and False are scaled as 1 and 0.
RECURSIVE scale_value_no_bool_guard(_, _)
scale_value_no_bool_guard(value, scale) ==
    IF value.cls \in {"int", "float", "bool"} THEN JFloat(Mul(NumOf(value), scale))
    ELSE IF value.cls = "list"
    THEN JList([i \in DOMAIN value.items |-> scale_value_no_bool_guard(value.items[i], scale)])
    ELSE IF value.cls = "dict"
    THEN JDict([i \in DOMAIN value.items |->
                    Entry(value.items[i].key,
                          scale_value_no_bool_guard(value.items[i].val, scale))])
    ELSE value

\* _scale_value
RECURSIVE scale_value(_, _)
scale_value(value, scale) ==
    IF value.cls = "bool" THEN value
    ELSE IF value.cls \in {"int", "float"} THEN JFloat(Mul(value.n, scale))
    ELSE IF value.cls = "list"
    THEN JList([i \in DOMAIN value.items |-> scale_value(value.items[i], scale)])
    ELSE IF value.cls = "dict"
    THEN JDict([i \in DOMAIN value.items |->
                    Entry(value.items[i].key, scale_value(value.items[i].val, scale))])
    ELSE value

spatial_sections == <<"boundary", "components", "traces", "vias", "pours", "keepouts">>

RECURSIVE ScaleSections(_, _, _)
ScaleSections(d, i, scale) ==
    IF i > Len(spatial_sections) THEN d
    ELSE ScaleSections(
            IF HasKey(d, spatial_sections[i])
            THEN Put(d, spatial_sections[i], scale_value(Lookup(d, spatial_sections[i]), scale))
            ELSE d,
            i + 1, scale)

\* The tail of normalize_units: scale the spatial sections and rewrite the unit.
ScaleAndRewrite(d, scale) ==
    LET scaled == ScaleSections(d, 1, scale)
    IN  IF HasKey(scaled, "metadata")
        THEN Put(scaled, "metadata", Put(Lookup(scaled, "metadata"), "designUnits", JStr("MILLIMETER")))
        ELSE scaled

INVALID_UNIT == ValidationError("INVALID_UNIT_SPECIFICATION", <<"$", "metadata", "designUnits">>, NoneVal)

\* normalize_units with an unknown unit read as the default one.
normalize_units_default_micron(d) ==
    IF ~IsDict(d) \/ ~IsDict(Get(d, "metadata", JDict(<<>>)))
    THEN [raised |-> TRUE, exc |-> "AttributeError", data |-> d, errors |-> <<>>]
    ELSE LET units == Get(Get(d, "metadata", JDict(<<>>)), "designUnits", JStr("MICRON"))
         IN  IF units = JStr("MILLIMETER")
             THEN [raised |-> FALSE, exc |-> "", data |-> ScaleAndRewrite(d, MM), errors |-> <<>>]
             ELSE [raised |-> FALSE, exc |-> "", data |-> ScaleAndRewrite(d, MICRON_TO_MM),
                   errors |-> <<>>]

\* normalize_units: the outcome is the document object after the call and
\* the defects returned; data.get on a value that is no dict raises
\* AttributeError.
normalize_units(d) ==
    IF ~IsDict(d) \/ ~IsDict(Get(d, "metadata", JDict(<<>>)))
    THEN [raised |-> TRUE, exc |-> "AttributeError", data |-> d, errors |-> <<>>]
    ELSE LET units == Get(Get(d, "metadata", JDict(<<>>)), "designUnits", JStr("MICRON"))
         IN  IF units = JStr("MICRON")
             THEN [raised |-> FALSE, exc |-> "", data |-> ScaleAndRewrite(d, MICRON_TO_MM),
                   errors |-> <<>>]
             ELSE IF units = JStr("MILLIMETER")
             THEN [raised |-> FALSE, exc |-> "", data |-> ScaleAndRewrite(d, MM), errors |-> <<>>]
             ELSE [raised |-> FALSE, exc |-> "", data |-> d, errors |-> <<INVALID_UNIT>>]

\* The flat branch of parse_coordinates pairing every element with its
\* successor (a stride of 1).
FlatPointsStrideOne(items) ==
    [i \in 1..(Len(items) \div 2) |-> Point(NumOf(items[i]), NumOf(items[i + 1]))]

\* The flat branch of parse_coordinates: range(0, len(raw), 2).
FlatPoints(items) ==
    [i \in 1..(Len(items) \div 2) |-> Point(NumOf(items[2 * i - 1]), NumOf(items[2 * i]))]

\* parse_coordinates.  Iterating a dict gives its keys and iterating a str
\* its characters (neither numbers nor pairs); a number is not iterable.
parse_coordinates(r) ==
    IF Falsy(r) THEN Raised("ValueError")
    ELSE IF r.cls \in {"int", "float", "bool"} THEN Raised("TypeError")
    ELSE IF r.cls \in {"dict", "str"} THEN Raised("ValueError")
    ELSE IF \A i \in DOMAIN r.items : IsIntOrFloat(r.items[i])
    THEN IF Len(r.items) % 2 # 0 THEN Raised("ValueError")
         ELSE Returned(FlatPoints(r.items))
    ELSE IF \A i \in DOMAIN r.items : IsList(r.items[i]) /\ Len(r.items[i].items) = 2
    THEN IF \E i \in DOMAIN r.items :
                NewPoint(r.items[i].items[1], r.items[i].items[2]).raised
         THEN Raised("ValidationError")
         ELSE Returned([i \in DOMAIN r.items |->
                            NewPoint(r.items[i].items[1], r.items[i].items[2]).value])
    ELSE Raised("ValueError")

\* ------------------------------------------------------------ _parse_board_objects

\* The outcome of a builder step: the (possibly partly rewritten) object and
\* whether an exception left the step.
Built(d) == [raised |-> FALSE, exc |-> "", data |-> d]
Failed(e, d) == [raised |-> TRUE, exc |-> e, data |-> d]

MinOf(S) == CHOOSE m \in S : \A n \in S : m <= n

\* A for loop over the values of a dict (or the items of a list) that
\* rewrites them in place: outs[i] is the outcome of the loop body on item i.
\* The loop stops at the first body that raises, leaving the later items as
\* they were.
LoopOutcome(container, outs) ==
    LET bad == {i \in DOMAIN outs : outs[i].raised}
    IN  IF bad = {}
        THEN Built([container EXCEPT !.items = [i \in DOMAIN outs |-> outs[i].data]])
        ELSE Failed(outs[MinOf(bad)].exc,
                    [container EXCEPT !.items =
                        [i \in DOMAIN outs |-> IF i <= MinOf(bad) THEN outs[i].data
                                               ELSE container.items[i]]])

\* pos[0], pos[1] handed to Point: pos must be a sequence of two or more.
PointOfPair(pos) ==
    IF ~IsList(pos) THEN Raised("TypeError")
    ELSE IF Len(pos.items) < 2 THEN Raised("IndexError")
    ELSE NewPoint(pos.items[1], pos.items[2])

\* boundary: Polygon(points=parse_coordinates(coords)), None on ValueError.
BuildBoundary(d) ==
    IF HasKey(d, "boundary") /\ IsDict(Lookup(d, "boundary"))
    THEN LET coords == Get(Lookup(d, "boundary"), "coordinates", NoneVal)
             pts == parse_coordinates(coords)
         IN  IF coords = NoneVal THEN Built(d)
             ELSE IF pts.raised
             THEN (IF IsValueError(pts.exc) THEN Built(Put(d, "boundary", NoneVal))
                   ELSE Failed(pts.exc, d))
             ELSE IF NewPolygon(pts.value).raised
             THEN Built(Put(d, "boundary", NoneVal))
             ELSE Built(Put(d, "boundary", NewPolygon(pts.value).value))
    ELSE Built(d)

LayerTypes == {"TOP", "BOTTOM", "MID", "PLANE", "DIELECTRIC"}

HasStr(d, key) == HasKey(d, key) /\ Lookup(d, key).cls = "str"
HasNumber(d, key) == HasKey(d, key) /\ Lookup(d, key).cls \in {"int", "float"}
HasDictAt(d, key) == HasKey(d, key) /\ Lookup(d, key).cls = "dict"

\* Layer(**layer)
NewLayer(layer) ==
    IF ~IsDict(layer) THEN Raised("TypeError")
    ELSE IF /\ HasStr(layer, "name")
            /\ HasStr(layer, "layer_type") /\ Lookup(layer, "layer_type").s \in LayerTypes
            /\ HasNumber(layer, "index") /\ Lookup(layer, "index").n % MM = 0
            /\ HasDictAt(layer, "material")
    THEN Returned(Layer(Lookup(layer, "name").s, Lookup(layer, "layer_type").s,
                        Lookup(layer, "index").n \div MM))
    ELSE Raised("ValidationError")

\* stackup: data["stackup"]["layers"] = [Layer(**layer) for layer in layers]
BuildStackup(d) ==
    IF HasKey(d, "stackup") /\ IsDict(Lookup(d, "stackup"))
    THEN LET layers == Get(Lookup(d, "stackup"), "layers", JList(<<>>))
         IN  IF ~IsList(layers) THEN Failed("TypeError", d)
             ELSE IF \E i \in DOMAIN layers.items : NewLayer(layers.items[i]).raised
             THEN Failed(NewLayer(layers.items[MinOf({i \in DOMAIN layers.items :
                                    NewLayer(layers.items[i]).raised})]).exc, d)
             ELSE Built(Put(d, "stackup",
                            Put(Lookup(d, "stackup"), "layers",
                                JList([i \in DOMAIN layers.items |->
                                          NewLayer(layers.items[i]).value]))))
    ELSE Built(d)

\* pin["position"] = Point(...) for one pin.
BuildPin(e) ==
    IF ~IsDict(e.val) THEN Failed("AttributeError", e)
    ELSE LET p == PointOfPair(Get(e.val, "position", JList(<<JInt(0), JInt(0)>>)))
         IN  IF p.raised THEN Failed(p.exc, e)
             ELSE Built(Entry(e.key, Put(e.val, "position", p.value)))

\* The body of the component loop: the transform, then the pins.
BuildComponent(e) ==
    IF ~IsDict(e.val) THEN Failed("AttributeError", e)
    ELSE LET comp_data == e.val
             tr == Lookup(comp_data, "transform")
             p == PointOfPair(Get(tr, "position", JList(<<JInt(0), JInt(0)>>)))
             with_tr ==
                 IF HasKey(comp_data, "transform")
                 THEN Put(comp_data, "transform",
                          JDict(<<Entry("position", p.value),
                                  Entry("rotation", Get(tr, "rotation", JFloat(0))),
                                  Entry("side", Get(tr, "side", JStr("FRONT")))>>))
                 ELSE comp_data
         IN  IF HasKey(comp_data, "transform") /\ ~IsDict(tr)
             THEN Failed("AttributeError", e)
             ELSE IF HasKey(comp_data, "transform") /\ p.raised THEN Failed(p.exc, e)
             ELSE IF ~IsDict(Get(with_tr, "pins", JDict(<<>>)))
             THEN Failed("AttributeError", Entry(e.key, with_tr))
             ELSE LET pins == Get(with_tr, "pins", JDict(<<>>))
                      loop == LoopOutcome(pins, [i \in DOMAIN pins.items |-> BuildPin(pins.items[i])])
                      after == IF HasKey(with_tr, "pins") THEN Put(with_tr, "pins", loop.data)
                               ELSE with_tr
                  IN  IF loop.raised THEN Failed(loop.exc, Entry(e.key, after))
                      ELSE Built(Entry(e.key, after))

\* The body of the trace loop: Polyline(points=parse_coordinates(coords)),
\* with no handler around it.
BuildTrace(e) ==
    LET trace == e.val
    IN  IF ~(IsDict(trace) /\ HasKey(trace, "path")) THEN Built(e)
        ELSE IF Lookup(trace, "path").cls \in {"None", "int", "float", "bool"}
        THEN Failed("TypeError", e)
        ELSE IF ~(IsDict(Lookup(trace, "path")) /\ HasKey(Lookup(trace, "path"), "coordinates"))
        THEN Built(e)
        ELSE LET pts == parse_coordinates(Lookup(Lookup(trace, "path"), "coordinates"))
             IN  IF pts.raised THEN Failed(pts.exc, e)
                 ELSE Built(Entry(e.key, Put(trace, "path", Polyline(pts.value))))

\* The body of the via loop.
BuildVia(e) ==
    IF ~IsDict(e.val) THEN Failed("TypeError", e)
    ELSE IF ~HasKey(e.val, "center") THEN Built(e)
    ELSE LET p == PointOfPair(Lookup(e.val, "center"))
         IN  IF p.raised THEN Failed(p.exc, e)
             ELSE Built(Entry(e.key, Put(e.val, "center", p.value)))

Circle(center, radius) == [cls |-> "Circle", center |-> center, radius |-> radius]

\* Circle(center=..., radius=...): validate_radius.
NewCircle(center, radius) ==
    IF radius <= 0 THEN Raised("ValidationError")
    ELSE Returned(Circle(center, radius))

\* The body of the keepout loop (the items of the keepout list).
BuildKeepout(keepout) ==
    IF ~IsDict(keepout) THEN Failed("TypeError", keepout)
    ELSE IF ~(HasKey(keepout, "shape") /\ IsDict(Lookup(keepout, "shape"))) THEN Built(keepout)
    ELSE LET shape_data == Lookup(keepout, "shape")
             shape_type == Get(shape_data, "type", JStr(""))
             center == Get(shape_data, "center", NoneVal)
             radius == Get(shape_data, "radius", NoneVal)
         IN  IF shape_type.cls # "str" THEN Failed("AttributeError", keepout)
             ELSE IF shape_type.s \in {"circle", "CIRCLE", "Circle"}
             THEN IF IsList(center) /\ Len(center.items) = 2 /\ IsIntOrFloat(radius)
                  THEN IF NewPoint(center.items[1], center.items[2]).raised
                          \/ NewCircle(NoneVal, NumOf(radius)).raised
                       THEN Built(Put(keepout, "shape", NoneVal))
                       ELSE Built(Put(keepout, "shape",
                                Circle(NewPoint(center.items[1], center.items[2]).value,
                                       NumOf(radius))))
                  ELSE Built(Put(keepout, "shape", NoneVal))
             ELSE IF HasKey(shape_data, "coordinates")
             THEN LET pts == parse_coordinates(Lookup(shape_data, "coordinates"))
                  IN  IF pts.raised THEN Failed(pts.exc, keepout)
                      ELSE IF NewPolygon(pts.value).raised THEN Failed("ValidationError", keepout)
                      ELSE Built(Put(keepout, "shape", NewPolygon(pts.value).value))
             ELSE Built(keepout)

\* for x in data.get(section, {}).values(): body(x), rewriting in place.
BuildSection(d, section, outs, is_list) ==
    IF ~HasKey(d, section) THEN Built(d)
    ELSE IF Lookup(d, section).cls # (IF is_list THEN "list" ELSE "dict")
    THEN Failed(IF is_list THEN "TypeError" ELSE "AttributeError", d)
    ELSE LET loop == LoopOutcome(Lookup(d, section), outs)
         IN  [raised |-> loop.raised, exc |-> loop.exc, data |-> Put(d, section, loop.data)]

BuildComponents(d) ==
    BuildSection(d, "components",
        IF HasDictAt(d, "components")
        THEN [i \in DOMAIN Lookup(d, "components").items |->
                BuildComponent(Lookup(d, "components").items[i])]
        ELSE <<>>, FALSE)

BuildTraces(d) ==
    BuildSection(d, "traces",
        IF HasDictAt(d, "traces")
        THEN [i \in DOMAIN Lookup(d, "traces").items |-> BuildTrace(Lookup(d, "traces").items[i])]
        ELSE <<>>, FALSE)

BuildVias(d) ==
    BuildSection(d, "vias",
        IF HasDictAt(d, "vias")
        THEN [i \in DOMAIN Lookup(d, "vias").items |-> BuildVia(Lookup(d, "vias").items[i])]
        ELSE <<>>, FALSE)

BuildKeepouts(d) ==
    BuildSection(d, "keepouts",
        IF HasKey(d, "keepouts") /\ IsList(Lookup(d, "keepouts"))
        THEN [i \in DOMAIN Lookup(d, "keepouts").items |->
                BuildKeepout(Lookup(d, "keepouts").items[i])]
        ELSE <<>>, TRUE)

\* A block of _parse_board_objects runs only if no earlier block raised.
ThenStackup(s) == IF s.raised THEN s ELSE BuildStackup(s.data)
ThenComponents(s) == IF s.raised THEN s ELSE BuildComponents(s.data)
ThenTraces(s) == IF s.raised THEN s ELSE BuildTraces(s.data)
ThenVias(s) == IF s.raised THEN s ELSE BuildVias(s.data)
ThenKeepouts(s) == IF s.raised THEN s ELSE BuildKeepouts(s.data)

\* _parse_board_objects: the six blocks in order, the first exception ends it.
parse_board_objects(d) ==
    ThenKeepouts(ThenVias(ThenTraces(ThenComponents(ThenStackup(BuildBoundary(d))))))

\* ------------------------------------------------------------ Board(**parsed)

Keepout(uid, name, layer, shape, keepout_type) ==
    [uid |-> uid, name |-> name, layer |-> layer, shape |-> shape,
     keepout_type |-> keepout_type]

AnyRaised(outs) == \E i \in DOMAIN outs : outs[i].raised

\* Dict[str, Model]: every value validated, the keys kept in order.
ModelDict(d, New(_)) ==
    IF AnyRaised([i \in DOMAIN d.items |-> New(d.items[i].val)])
    THEN Raised("ValidationError")
    ELSE Returned([i \in DOMAIN d.items |-> Entry(d.items[i].key, New(d.items[i].val).value)])

\* List[Model]
ModelList(l, New(_)) ==
    IF AnyRaised([i \in DOMAIN l.items |-> New(l.items[i])])
    THEN Raised("ValidationError")
    ELSE Returned([i \in DOMAIN l.items |-> New(l.items[i]).value])

NewNet(n) ==
    IF IsDict(n) /\ HasStr(n, "name") THEN Returned(Net(Lookup(n, "name").s))
    ELSE Raised("ValidationError")

\* Transform without validate_rotation.
NewTransformAnyRotation(t) ==
    IF /\ IsDict(t)
       /\ HasKey(t, "position") /\ Lookup(t, "position").cls = "Point"
       /\ Get(t, "rotation", JFloat(0)).cls \in {"int", "float"}
       /\ Get(t, "side", JStr("FRONT")) \in {JStr("FRONT"), JStr("BACK")}
    THEN Returned([Transform(Lookup(t, "position"), Get(t, "rotation", JFloat(0)).n)
                      EXCEPT !.side = Get(t, "side", JStr("FRONT")).s])
    ELSE Raised("ValidationError")

\* Transform: position a Point, rotation a number that validate_rotation
\* accepts (0 <= value <= 360), side a Side.
NewTransform(t) ==
    IF /\ IsDict(t)
       /\ HasKey(t, "position") /\ Lookup(t, "position").cls = "Point"
       /\ Get(t, "rotation", JFloat(0)).cls \in {"int", "float"}
       /\ 0 <= Get(t, "rotation", JFloat(0)).n /\ Get(t, "rotation", JFloat(0)).n <= Num(360)
       /\ Get(t, "side", JStr("FRONT")) \in {JStr("FRONT"), JStr("BACK")}
    THEN Returned([Transform(Lookup(t, "position"), Get(t, "rotation", JFloat(0)).n)
                      EXCEPT !.side = Get(t, "side", JStr("FRONT")).s])
    ELSE Raised("ValidationError")

\* Pin: net_name is Optional[str] without a default, so the key is required
\* and may hold None.
NewPin(p) ==
    IF /\ IsDict(p)
       /\ HasStr(p, "name") /\ HasStr(p, "comp_name")
       /\ HasKey(p, "net_name") /\ Lookup(p, "net_name").cls \in {"str", "None"}
       /\ HasDictAt(p, "shape")
       /\ HasKey(p, "position") /\ Lookup(p, "position").cls = "Point"
    THEN Returned(Pin(Lookup(p, "name").s, Lookup(p, "comp_name").s,
                      IF Lookup(p, "net_name") = NoneVal THEN "None"
                      ELSE Lookup(p, "net_name").s))
    ELSE Raised("ValidationError")

NewComponent(c) ==
    IF /\ IsDict(c)
       /\ HasStr(c, "name") /\ HasStr(c, "reference") /\ HasStr(c, "footprint")
       /\ HasDictAt(c, "outline")
       /\ HasKey(c, "transform") /\ ~NewTransform(Lookup(c, "transform")).raised
       /\ HasDictAt(c, "pins") /\ ~ModelDict(Lookup(c, "pins"), NewPin).raised
    THEN Returned(Component(Lookup(c, "name").s, NewTransform(Lookup(c, "transform")).value,
                            ModelDict(Lookup(c, "pins"), NewPin).value))
    ELSE Raised("ValidationError")

\* Trace.path: a Polyline, or a dict validated as one (points defaults to
\* the empty list).
NewPath(p) ==
    IF p.cls = "Polyline" THEN Returned(p)
    ELSE IF IsDict(p) /\ ~HasKey(p, "points") THEN Returned(Polyline(<<>>))
    ELSE Raised("ValidationError")

NewTrace(t) ==
    IF /\ IsDict(t)
       /\ HasStr(t, "uid") /\ HasStr(t, "net_name") /\ HasStr(t, "layer_hash")
       /\ HasKey(t, "path") /\ ~NewPath(Lookup(t, "path")).raised
       /\ HasNumber(t, "width")
    THEN Returned(Trace(Lookup(t, "uid").s, Lookup(t, "net_name").s, Lookup(t, "layer_hash").s,
                        NewPath(Lookup(t, "path")).value, Lookup(t, "width").n))
    ELSE Raised("ValidationError")

\* Dict[str, str] as the mapping validate_board reads with span.get.
SpanOf(d) == [k \in {d.items[i].key : i \in DOMAIN d.items} |-> Lookup(d, k).s]

NewVia(v) ==
    IF /\ IsDict(v)
       /\ HasStr(v, "uid") /\ HasStr(v, "net_name")
       /\ HasKey(v, "center") /\ Lookup(v, "center").cls = "Point"
       /\ HasNumber(v, "diameter") /\ HasNumber(v, "hole_size")
       /\ HasDictAt(v, "span")
       /\ \A i \in DOMAIN Lookup(v, "span").items : Lookup(v, "span").items[i].val.cls = "str"
    THEN Returned(Via(Lookup(v, "uid").s, Lookup(v, "net_name").s, Lookup(v, "diameter").n,
                      Lookup(v, "hole_size").n, SpanOf(Lookup(v, "span"))))
    ELSE Raised("ValidationError")

\* Keepout with shape: Polygon | Circle, None not admitted.
NewKeepoutShapeRequired(k) ==
    IF /\ IsDict(k)
       /\ HasStr(k, "uid") /\ HasStr(k, "name") /\ HasStr(k, "layer") /\ HasStr(k, "keepout_type")
       /\ HasKey(k, "shape") /\ Lookup(k, "shape").cls \in {"Polygon", "Circle"}
    THEN Returned(Keepout(Lookup(k, "uid").s, Lookup(k, "name").s, Lookup(k, "layer").s,
                          Lookup(k, "shape"), Lookup(k, "keepout_type").s))
    ELSE Raised("ValidationError")

\* Keepout: shape is Optional[Polygon | Circle] without a default.
NewKeepout(k) ==
    IF /\ IsDict(k)
       /\ HasStr(k, "uid") /\ HasStr(k, "name") /\ HasStr(k, "layer") /\ HasStr(k, "keepout_type")
       /\ HasKey(k, "shape") /\ Lookup(k, "shape").cls \in {"None", "Polygon", "Circle"}
    THEN Returned(Keepout(Lookup(k, "uid").s, Lookup(k, "name").s, Lookup(k, "layer").s,
                          Lookup(k, "shape"), Lookup(k, "keepout_type").s))
    ELSE Raised("ValidationError")

\* Board(**parsed)
NewBoard(p) ==
    IF /\ HasDictAt(p, "metadata")
       /\ Get(p, "boundary", NoneVal).cls \in {"None", "Polygon"}
       /\ HasDictAt(p, "stackup")
       /\ HasKey(p, "nets") /\ IsList(Lookup(p, "nets"))
       /\ ~ModelList(Lookup(p, "nets"), NewNet).raised
       /\ HasDictAt(p, "components") /\ ~ModelDict(Lookup(p, "components"), NewComponent).raised
       /\ HasDictAt(p, "traces") /\ ~ModelDict(Lookup(p, "traces"), NewTrace).raised
       /\ HasDictAt(p, "vias") /\ ~ModelDict(Lookup(p, "vias"), NewVia).raised
       /\ IsDict(Get(p, "pours", JDict(<<>>)))
       /\ IsList(Get(p, "keepouts", JList(<<>>)))
       /\ ~ModelList(Get(p, "keepouts", JList(<<>>)), NewKeepout).raised
    THEN Returned([metadata |-> Lookup(p, "metadata"),
                   boundary |-> Get(p, "boundary", NoneVal),
                   stackup |-> Lookup(p, "stackup"),
                   nets |-> ModelList(Lookup(p, "nets"), NewNet).value,
                   components |-> ModelDict(Lookup(p, "components"), NewComponent).value,
                   traces |-> ModelDict(Lookup(p, "traces"), NewTrace).value,
                   vias |-> ModelDict(Lookup(p, "vias"), NewVia).value,
                   keepouts |-> ModelList(Get(p, "keepouts", JList(<<>>)), NewKeepout).value])
    ELSE Raised("ValidationError")

\* ------------------------------------------------------------ parse_board_data

\* The PARSE_ERROR defect; its message carries the exception.
PARSE_ERROR(exc) ==
    [code |-> "PARSE_ERROR", json_path |-> <<"$">>, context |-> NoneVal, cause |-> exc]

\* The outcome of parse_board_data: the pair it returns (or the exception
\* that leaves it), the document object after the call, and the stages run.
ParseOutcome(raised, exc, b, errors, d, calls) ==
    [raised |-> raised, exc |-> exc, board |-> b, errors |-> errors, data |-> d,
     calls |-> calls]

\* The end of the try block: board = Board(**parsed); return board, errors.
Assembled(d, assembled) ==
    IF assembled.raised
    THEN ParseOutcome(FALSE, "", NoneVal, <<PARSE_ERROR(assembled.exc)>>, d,
                      <<"normalize_units", "_parse_board_objects", "Board">>)
    ELSE ParseOutcome(FALSE, "", assembled.value, <<>>, d,
                      <<"normalize_units", "_parse_board_objects", "Board">>)

\* The try block after parsed = _parse_board_objects(data).
AfterBuild(built) ==
    IF built.raised
    THEN ParseOutcome(FALSE, "", NoneVal, <<PARSE_ERROR(built.exc)>>, built.data,
                      <<"normalize_units", "_parse_board_objects">>)
    ELSE Assembled(built.data, NewBoard(built.data))

\* parse_board_data after data, unit_errors = normalize_units(data), a call
\* made before the try block.
AfterNormalize(nu) ==
    IF nu.raised
    THEN ParseOutcome(TRUE, nu.exc, NoneVal, <<>>, nu.data, <<"normalize_units">>)
    ELSE IF nu.errors # <<>>
    THEN ParseOutcome(FALSE, "", NoneVal, nu.errors, nu.data, <<"normalize_units">>)
    ELSE AfterBuild(parse_board_objects(nu.data))

parse_board_data(d) == AfterNormalize(normalize_units(d))

\* ------------------------------------------------------------ bounds
\* Most traces, vias and components of a board built directly from model objects.
MaxTraces == 1
MaxVias == 1
MaxComponents == 1
\* Most objects (traces, vias and components together) of such a board.
MaxObjects == 3
\* Most points of a coordinate list handed to parse_coordinates.
MaxPoints == 4
MaxDeviations == 1

\* ------------------------------------------------------------ fixtures
\* Boards as the tests build them: Board(...) from model objects, then
\* fields patched in place.

Square == NewPolygon(<<Point(0, 0), Point(Num(10), 0), Point(Num(10), Num(10)),
                       Point(0, Num(10))>>).value
Bowtie == NewPolygon(<<Point(0, 0), Point(Num(10), Num(10)), Point(Num(10), 0),
                       Point(0, Num(10))>>).value

FixtureBoundaries == {NoneVal, Square, Bowtie}

FixtureStackups ==
    { JDict(<<Entry("totalThickness", JInt(Num(1)))>>),
      JDict(<<Entry("layers", JList(<<>>))>>),
      JDict(<<Entry("layers", JList(<<Layer("TOP", "TOP", 0), Layer("BOTTOM", "BOTTOM", 1)>>))>>),
      JDict(<<Entry("layers", JList(<<Layer("TOP", "TOP", 0), Layer("BOTTOM", "BOTTOM", 2)>>))>>),
      JDict(<<Entry("layers", JList(<<JDict(<<Entry("name", JStr("L1")),
                                              Entry("index", JInt(0)),
                                              Entry("layerHash", JStr("L1"))>>)>>))>>) }

FixtureNets == {<<>>, <<Net("GND")>>, <<Net("NET1"), Net("GND")>>}

TraceVariants ==
    { Trace("", "GND", "TOP", Polyline(<<Point(0, 0), Point(Num(5), Num(5))>>), Num(1)),
      Trace("", "NET1", "L2", Polyline(<<Point(0, 0)>>), 0),
      Trace("", "GND", "TOP", Polyline(<<>>), Num(-1)) }

ViaVariants ==
    { Via("", "GND", Num(2), Num(1), [start_layer |-> "TOP", end_layer |-> "BOTTOM"]),
      Via("", "NET1", Num(1), Num(1), [start_layer |-> "TOP"]),
      Via("", "GND", Num(1), Num(2), [start_layer |-> "TOP", end_layer |-> "BOTTOM"]) }

ComponentVariants ==
    { Component("", Transform(Point(Num(5), Num(5)), Num(90)),
                <<Entry("1", Pin("1", "", "GND"))>>),
      Component("", Transform(Point(Num(20), Num(5)), 0),
                <<Entry("1", Pin("1", "C9", "None")), Entry("2", Pin("2", "", "NET1")),
                  Entry("3", Pin("3", "", ""))>>) }

TraceKeys == <<"t1", "t2", "t3", "t4">>
ViaKeys == <<"v1", "v2", "v3", "v4">>
ComponentKeys == <<"C1", "C2", "C3", "C4">>

SeqsUpTo(V, n) == UNION {[1..k -> V] : k \in 0..n}

\* A dict of model objects in insertion order, each object carrying its key.
KeyedTraces(s) == [i \in 1..Len(s) |-> Entry(TraceKeys[i], [s[i] EXCEPT !.uid = TraceKeys[i]])]
KeyedVias(s) == [i \in 1..Len(s) |-> Entry(ViaKeys[i], [s[i] EXCEPT !.uid = ViaKeys[i]])]
OwnPins(pins, name) ==
    [j \in 1..Len(pins) |->
        IF pins[j].val.comp_name = "" THEN Entry(pins[j].key, [pins[j].val EXCEPT !.comp_name = name])
        ELSE pins[j]]
KeyedComponents(s) ==
    [i \in 1..Len(s) |->
        Entry(ComponentKeys[i],
              [s[i] EXCEPT !.name = ComponentKeys[i], !.pins = OwnPins(s[i].pins, ComponentKeys[i])])]

MkBoard(bd, st, ns, cs, ts, vs) ==
    [metadata |-> JDict(<<Entry("title", JStr("test"))>>), boundary |-> bd, stackup |-> st, nets |-> ns,
     components |-> cs, traces |-> ts, vias |-> vs, keepouts |-> <<>>]

\* The component, trace and via lists of a fixture board.
ObjectLists ==
    { o \in SeqsUpTo(ComponentVariants, MaxComponents) \X SeqsUpTo(TraceVariants, MaxTraces)
             \X SeqsUpTo(ViaVariants, MaxVias) :
        Len(o[1]) + Len(o[2]) + Len(o[3]) <= MaxObjects }

\* The layer indices of a three-layer stackup, in the order of the layers.
IndexRuns == {<<0, 1, 3>>, <<0, 0, 1>>, <<0, 1, 2>>, <<2, 0, 1>>, <<5, 6, 7>>, <<-1, 0, 1>>,
              <<1, 1, 1>>, <<3, 1, 0>>}

IndexedStackup(r) ==
    JDict(<<Entry("layers", JList(<<Layer("TOP", "TOP", r[1]), Layer("L1", "MID", r[2]),
                                    Layer("BOTTOM", "BOTTOM", r[3])>>))>>)

\* Boards that differ in their layer indices (as boards/board_xi.json does).
IndexedBoards ==
    { MkBoard(bd, IndexedStackup(r), <<Net("GND")>>, <<>>, KeyedTraces(ts), <<>>) :
        bd \in {NoneVal, Square}, r \in IndexRuns, ts \in SeqsUpTo(TraceVariants, MaxTraces) }

FixtureBoards ==
    { MkBoard(bd, st, ns, KeyedComponents(o[1]), KeyedTraces(o[2]), KeyedVias(o[3])) :
        bd \in FixtureBoundaries, st \in FixtureStackups, ns \in FixtureNets,
        o \in ObjectLists }
    \cup IndexedBoards

\* ------------------------------------------------------------ documents
\* Raw documents as json.loads returns them: a well-formed board in either
\* unit, with at most MaxDeviations of its parts replaced or removed.

Units == {"MILLIMETER", "MICRON"}

\* A length of k millimetres written in the unit u.
Len_(u, k) == IF u = "MICRON" THEN JInt(Num(k * 1000)) ELSE JInt(Num(k))

PairOf(u, a, b) == JList(<<Len_(u, a), Len_(u, b)>>)

SquareCoords(u) == JList(<<PairOf(u, 0, 0), PairOf(u, 10, 0), PairOf(u, 10, 10), PairOf(u, 0, 10)>>)
BowtieCoords(u) == JList(<<PairOf(u, 0, 0), PairOf(u, 10, 10), PairOf(u, 10, 0), PairOf(u, 0, 10)>>)
FlatSquareCoords(u) ==
    JList(<<Len_(u, 0), Len_(u, 0), Len_(u, 10), Len_(u, 0),
            Len_(u, 10), Len_(u, 10), Len_(u, 0), Len_(u, 10)>>)
OddCoords(u) == JList(<<Len_(u, 0), Len_(u, 0), Len_(u, 10)>>)
MixedCoords(u) == JList(<<PairOf(u, 0, 0), Len_(u, 5), PairOf(u, 10, 10)>>)
TwoPointCoords(u) == JList(<<PairOf(u, 0, 0), PairOf(u, 10, 10)>>)
OnePointCoords(u) == JList(<<PairOf(u, 0, 0)>>)
TextPairCoords(u) ==
    JList(<<PairOf(u, 0, 0), JList(<<Len_(u, 10), JStr("x")>>), PairOf(u, 10, 10)>>)

LayerDoc(name, index) ==
    JDict(<<Entry("name", JStr(name)), Entry("layer_type", JStr(name)),
            Entry("index", JInt(Num(index))), Entry("material", JDict(<<>>))>>)

CircleShape(u, radius) ==
    JDict(<<Entry("type", JStr("circle")), Entry("center", PairOf(u, 5, 5)),
            Entry("radius", radius)>>)
PolygonShape(coords) ==
    JDict(<<Entry("type", JStr("polygon")), Entry("coordinates", coords)>>)

KeepoutDoc(uid, shape) ==
    JDict(<<Entry("uid", JStr(uid)), Entry("name", JStr("keepout")), Entry("layer", JStr("TOP")),
            Entry("keepout_type", JStr("routing")), Entry("shape", shape)>>)

\* The well-formed board: tests/conftest.py minimal_board with one object
\* of every kind added.
BaseDoc(u) ==
    JDict(<<
        Entry("metadata", JDict(<<Entry("designUnits", JStr(u)), Entry("version", JInt(Num(2)))>>)),
        Entry("boundary", JDict(<<Entry("coordinates", SquareCoords(u))>>)),
        Entry("stackup", JDict(<<Entry("layers", JList(<<LayerDoc("TOP", 0), LayerDoc("BOTTOM", 1)>>)),
                                 Entry("totalThickness", JInt(Num(2)))>>)),
        Entry("nets", JList(<<JDict(<<Entry("name", JStr("GND"))>>)>>)),
        Entry("components", JDict(<<Entry("C1", JDict(<<
            Entry("name", JStr("C1")), Entry("reference", JStr("R1")),
            Entry("footprint", JStr("0402")), Entry("user_preplaced", JBool(TRUE)),
            Entry("outline", JDict(<<Entry("width", Len_(u, 2)), Entry("height", Len_(u, 1))>>)),
            Entry("transform", JDict(<<Entry("position", PairOf(u, 5, 5)),
                                       Entry("rotation", JInt(Num(90)))>>)),
            Entry("pins", JDict(<<Entry("1", JDict(<<
                Entry("name", JStr("1")), Entry("comp_name", JStr("C1")),
                Entry("net_name", JStr("GND")), Entry("shape", JDict(<<>>)),
                Entry("position", PairOf(u, 0, 0)),
                Entry("is_throughhole", JBool(FALSE))>>))>>))>>))>>)),
        Entry("traces", JDict(<<Entry("t1", JDict(<<
            Entry("uid", JStr("t1")), Entry("net_name", JStr("GND")),
            Entry("layer_hash", JStr("TOP")),
            Entry("path", JDict(<<Entry("coordinates", JList(<<PairOf(u, 0, 0), PairOf(u, 5, 5)>>))>>)),
            Entry("width", Len_(u, 1))>>))>>)),
        Entry("vias", JDict(<<Entry("v1", JDict(<<
            Entry("uid", JStr("v1")), Entry("net_name", JStr("GND")),
            Entry("center", PairOf(u, 5, 5)),
            Entry("diameter", Len_(u, 2)), Entry("hole_size", Len_(u, 1)),
            Entry("span", JDict(<<Entry("start_layer", JStr("TOP")),
                                  Entry("end_layer", JStr("BOTTOM"))>>))>>))>>)),
        Entry("pours", JDict(<<Entry("p1", JDict(<<Entry("clearance", Len_(u, 1)),
                                                   Entry("filled", JBool(TRUE))>>))>>)),
        Entry("keepouts", JList(<<KeepoutDoc("k1", CircleShape(u, Len_(u, 1)))>>))
    >>)

\* The marker of a removed key.
Absent == [cls |-> "absent"]

Del(d, key) == [d EXCEPT !.items = SelectSeq(d.items, LAMBDA e : e.key # key)]

RECURSIVE HasPath(_, _)
HasPath(d, path) ==
    \/ Len(path) <= 1 /\ IsDict(d)
    \/ /\ Len(path) > 1 /\ IsDict(d) /\ HasKey(d, path[1])
       /\ HasPath(Lookup(d, path[1]), Tail(path))

RECURSIVE PutPath(_, _, _)
PutPath(d, path, val) ==
    IF Len(path) = 1
    THEN (IF val = Absent THEN Del(d, path[1]) ELSE Put(d, path[1], val))
    ELSE Put(d, path[1], PutPath(Lookup(d, path[1]), Tail(path), val))

Deviation(path, val) == [path |-> path, val |-> val]

Deviate(d, dev) == IF HasPath(d, dev.path) THEN PutPath(d, dev.path, dev.val) ELSE d

MetadataDeviations ==
    { Deviation(<<"metadata", "designUnits">>, JStr("INCH")),
      Deviation(<<"metadata", "designUnits">>, JInt(Num(5))),
      Deviation(<<"metadata", "designUnits">>, NoneVal),
      Deviation(<<"metadata", "designUnits">>, Absent),
      Deviation(<<"metadata">>, Absent),
      Deviation(<<"metadata">>, NoneVal),
      Deviation(<<"metadata">>, JStr("text")) }

BoundaryDeviations(u) ==
    { Deviation(<<"boundary">>, Absent),
      Deviation(<<"boundary">>, NoneVal),
      Deviation(<<"boundary">>, JDict(<<>>)),
      Deviation(<<"boundary", "coordinates">>, JInt(Num(5))) }
    \cup { Deviation(<<"boundary", "coordinates">>, c) :
             c \in {JList(<<>>), OddCoords(u), MixedCoords(u), TwoPointCoords(u),
                    FlatSquareCoords(u), BowtieCoords(u), TextPairCoords(u)} }

TraceDeviations(u) ==
    { Deviation(<<"traces">>, JDict(<<>>)),
      Deviation(<<"traces", "t1", "path">>, JDict(<<>>)),
      Deviation(<<"traces", "t1", "path">>, NoneVal),
      Deviation(<<"traces", "t1", "width">>, Absent),
      Deviation(<<"traces", "t1", "width">>, JInt(Num(-1))),
      Deviation(<<"traces", "t1", "net_name">>, JStr("NET1")) }
    \cup { Deviation(<<"traces", "t1", "path", "coordinates">>, c) :
             c \in {JList(<<>>), OddCoords(u), MixedCoords(u), OnePointCoords(u)} }

\* Circle shapes with the center or the radius missing or of the wrong type
\* (TestMalformedCircleKeepouts).
MalformedCircleShapes(u) ==
    { Del(CircleShape(u, Len_(u, 1)), "center"),
      Del(CircleShape(u, Len_(u, 1)), "radius"),
      Del(Del(CircleShape(u, Len_(u, 1)), "center"), "radius"),
      Put(CircleShape(u, Len_(u, 1)), "center", JList(<<Len_(u, 5), Len_(u, 5), Len_(u, 5)>>)),
      Put(CircleShape(u, Len_(u, 1)), "center", JStr("middle")),
      Put(CircleShape(u, Len_(u, 1)), "center", JList(<<JStr("a"), JStr("b")>>)),
      CircleShape(u, JStr("wide")),
      CircleShape(u, NoneVal) }

\* A malformed circle keepout before or after a valid one
\* (test_load_board_with_mixed_valid_and_malformed_keepouts).
MixedKeepoutDeviations(u) ==
    { Deviation(<<"keepouts">>, JList(<<KeepoutDoc("k1", s), KeepoutDoc("k2", CircleShape(u, Len_(u, 1)))>>)) :
        s \in MalformedCircleShapes(u) }
    \cup
    { Deviation(<<"keepouts">>, JList(<<KeepoutDoc("k1", CircleShape(u, Len_(u, 1))), KeepoutDoc("k2", s)>>)) :
        s \in MalformedCircleShapes(u) }

KeepoutDeviations(u) ==
    { Deviation(<<"keepouts">>, Absent),
      Deviation(<<"keepouts">>, JList(<<KeepoutDoc("k1", CircleShape(u, Len_(u, 1))),
                                        KeepoutDoc("k2", CircleShape(u, JInt(0)))>>)),
      Deviation(<<"keepouts">>, JList(<<Del(KeepoutDoc("k1", NoneVal), "shape")>>)) }
    \cup { Deviation(<<"keepouts">>, JList(<<KeepoutDoc("k1", s)>>)) :
             s \in {Del(CircleShape(u, Len_(u, 1)), "center"),
                    CircleShape(u, JInt(0)), CircleShape(u, JInt(Num(-1))),
                    CircleShape(u, JStr("wide")),
                    PolygonShape(SquareCoords(u)), PolygonShape(OddCoords(u)),
                    PolygonShape(TwoPointCoords(u)), PolygonShape(JList(<<>>)),
                    NoneVal, JStr("invalid_shape")} }
    \cup MixedKeepoutDeviations(u)

ComponentDeviations(u) ==
    { Deviation(<<"components">>, JDict(<<>>)),
      Deviation(<<"components", "C1", "transform", "rotation">>, JInt(Num(400))),
      Deviation(<<"components", "C1", "transform", "rotation">>, JInt(Num(-90))),
      Deviation(<<"components", "C1", "transform", "position">>, PairOf(u, 50, 50)),
      Deviation(<<"components", "C1", "transform", "position">>, JList(<<Len_(u, 5)>>)),
      Deviation(<<"components", "C1", "transform">>, Absent),
      Deviation(<<"components", "C1", "reference">>, Absent),
      Deviation(<<"components", "C1", "pins", "1", "comp_name">>, JStr("C9")),
      Deviation(<<"components", "C1", "pins", "1", "net_name">>, NoneVal) }

ViaDeviations(u) ==
    { Deviation(<<"vias">>, JDict(<<>>)),
      Deviation(<<"vias", "v1", "center">>, Absent),
      Deviation(<<"vias", "v1", "hole_size">>, Len_(u, 2)),
      Deviation(<<"vias", "v1", "span", "end_layer">>, Absent) }

StackupDeviations ==
    { Deviation(<<"stackup", "layers">>, Absent),
      Deviation(<<"stackup", "layers">>, JList(<<LayerDoc("TOP", 0), LayerDoc("BOTTOM", 2)>>)),
      Deviation(<<"stackup", "layers">>, JList(<<Del(LayerDoc("TOP", 0), "material")>>)),
      Deviation(<<"nets">>, JList(<<>>)),
      Deviation(<<"nets">>, Absent) }

Deviations(u) ==
    MetadataDeviations \cup BoundaryDeviations(u) \cup TraceDeviations(u)
    \cup KeepoutDeviations(u) \cup ComponentDeviations(u) \cup ViaDeviations(u)
    \cup StackupDeviations

RECURSIVE DocsWith(_, _)
DocsWith(u, k) ==
    IF k = 0 THEN {BaseDoc(u)}
    ELSE DocsWith(u, k - 1)
         \cup {Deviate(d, dev) : d \in DocsWith(u, k - 1), dev \in Deviations(u)}

\* json.loads may also return a value that is no object.
TopLevelValues == {JList(<<>>), JList(<<JInt(Num(1))>>), JStr("board"), NoneVal}

DocsOf(us) == TopLevelValues \cup UNION {DocsWith(u, MaxDeviations) : u \in us}

\* ------------------------------------------------------------ Spec
\* The parse pipeline on a raw document: normalize_units called directly,
\* or parse_board_data and then validate_board on the Board it returns.

Init ==
    /\ pc = "start"
    /\ data \in DocsOf(Units)
    /\ orig = data
    /\ parsed = NoneVal
    /\ board = NoneVal
    /\ result = NoneVal
    /\ raw = NoneVal
    /\ out = NoneVal
    /\ poly = NoneVal
    /\ second = NoneVal
    /\ cli = NoneVal

\* normalized, errors = normalize_units(data)
NormalizeUnits ==
    /\ pc = "start"
    /\ \E o \in {normalize_units(data)} :
          /\ parsed' = o
          /\ data' = o.data
    /\ pc' = "normalized"
    /\ UNCHANGED <<orig, board, result, raw, out, poly, second, cli>>

\* board, errors = parse_board_data(data)
ParseBoardData ==
    /\ pc = "start"
    /\ \E o \in {parse_board_data(data)} :
          /\ parsed' = o
          /\ data' = o.data
          /\ board' = o.board
    /\ pc' = "parsed"
    /\ UNCHANGED <<orig, result, raw, out, poly, second, cli>>

\* validate_board(board) on the Board parse_board_data returned
ValidateBoard ==
    /\ pc = "parsed"
    /\ ~parsed.raised
    /\ board # NoneVal
    /\ result' = validate_board(board)
    /\ pc' = "checked"
    /\ UNCHANGED <<data, orig, parsed, board, raw, out, poly, second, cli>>

\* normalize_units(normalized): the returned document normalized again
NormalizeAgain ==
    /\ pc = "normalized"
    /\ ~parsed.raised
    /\ parsed.errors = <<>>
    /\ \E o \in {normalize_units(data)} :
          /\ second' = o
          /\ data' = o.data
    /\ pc' = "renormalized"
    /\ UNCHANGED <<orig, parsed, board, result, raw, out, poly, cli>>

\* parse_board_data(data) once more on the document object a successful
\* first call received (and rewrote in place)
ParseAgain ==
    /\ pc = "parsed"
    /\ ~parsed.raised
    /\ parsed.errors = <<>>
    /\ board # NoneVal
    /\ \E o \in {parse_board_data(data)} :
          /\ second' = o
          /\ data' = o.data
    /\ pc' = "reparsed"
    /\ UNCHANGED <<orig, parsed, board, result, raw, out, poly, cli>>

Next == NormalizeUnits \/ ParseBoardData \/ ValidateBoard \/ NormalizeAgain \/ ParseAgain

Spec == Init /\ [][Next]_vars

\* ------------------------------------------------------------ SpecValidate
\* validate_board called on boards built from model objects.

InitValidate ==
    /\ pc = "fixture"
    /\ board \in FixtureBoards
    /\ data = NoneVal
    /\ orig = NoneVal
    /\ parsed = NoneVal
    /\ result = NoneVal
    /\ raw = NoneVal
    /\ out = NoneVal
    /\ poly = NoneVal
    /\ second = NoneVal
    /\ cli = NoneVal

\* A test empties the boundary's point list in place.
ClearBoundaryPoints ==
    /\ pc = "fixture"
    /\ Truthy(board.boundary)
    /\ board.boundary.points # <<>>
    /\ board' = [board EXCEPT !.boundary.points = <<>>]
    /\ UNCHANGED <<pc, data, orig, parsed, result, raw, out, poly, second, cli>>

\* A test patches a component's rotation in place (no validate_assignment).
PatchRotation ==
    /\ pc = "fixture"
    /\ \E i \in DOMAIN board.components : \E r \in {Num(400), Num(-90)} :
          /\ board.components[i].val.transform.rotation \in 0..Num(360)
          /\ board' = [board EXCEPT !.components[i].val.transform.rotation = r]
    /\ UNCHANGED <<pc, data, orig, parsed, result, raw, out, poly, second, cli>>

\* The first call with a validator that consumes the vias it walks
\* (board.vias.popitem() in place of the for loop).
ValidateFixtureConsuming ==
    /\ pc = "fixture"
    /\ orig' = board
    /\ result' = validate_board(board)
    /\ board' = [board EXCEPT !.vias = <<>>]
    /\ pc' = "validated"
    /\ UNCHANGED <<data, parsed, raw, out, poly, second, cli>>

\* before = copy.deepcopy(board); first = validate_board(board)
ValidateFixture ==
    /\ pc = "fixture"
    /\ orig' = board
    /\ result' = validate_board(board)
    /\ pc' = "validated"
    /\ UNCHANGED <<data, parsed, board, raw, out, poly, second, cli>>

\* second = validate_board(board), nothing touched in between
ValidateAgain ==
    /\ pc = "validated"
    /\ second' = validate_board(board)
    /\ pc' = "revalidated"
    /\ UNCHANGED <<data, orig, parsed, board, result, raw, out, poly, cli>>

NextValidate == ClearBoundaryPoints \/ PatchRotation \/ ValidateFixture \/ ValidateAgain

SpecValidate == InitValidate /\ [][NextValidate]_vars

\* ------------------------------------------------------------ SpecCoords
\* parse_coordinates called on a coordinate list, and Polygon(points=...)
\* built from what it returned (as the boundary and keepout builders do).

CoordValues == {0, Num(10)}
\* The corners of a triangle.
CoordPoints == {Point(0, 0), Point(Num(10), 0), Point(0, Num(10))}
PointSeqs == UNION {[1..k -> CoordPoints] : k \in 0..MaxPoints}

\* The two JSON spellings of a point sequence.
FlatOf(ps) == JList([i \in 1..(2 * Len(ps)) |->
                        IF i % 2 = 1 THEN JInt(ps[(i + 1) \div 2].x) ELSE JInt(ps[i \div 2].y)])
NestedOf(ps) == JList([i \in 1..Len(ps) |-> JList(<<JInt(ps[i].x), JInt(ps[i].y)>>)])

MalformedCoords ==
    { JList(<<JInt(Num(1)), JList(<<JInt(Num(2)), JInt(Num(3))>>), JInt(Num(4))>>),
      JList(<<JList(<<JInt(Num(1)), JInt(Num(2)), JInt(Num(3))>>),
              JList(<<JInt(Num(4)), JInt(Num(5)), JInt(Num(6))>>)>>),
      JList(<<JDict(<<Entry("x", JInt(Num(1)))>>)>>),
      JList(<<JStr("a"), JStr("b")>>),
      JList(<<JList(<<JInt(0), JInt(0)>>), JInt(Num(1)), JInt(Num(2))>>),
      JList(<<JList(<<JStr("a"), JInt(0)>>)>>),
      JDict(<<Entry("x", JInt(Num(1)))>>),
      JInt(Num(5)),
      NoneVal }

RawCoordInputs ==
    {FlatOf(ps) : ps \in PointSeqs}
    \cup {NestedOf(ps) : ps \in PointSeqs}
    \cup {JList(Append(FlatOf(ps).items, JInt(v))) : ps \in PointSeqs, v \in CoordValues}
    \cup MalformedCoords

InitCoords ==
    /\ pc = "coords_start"
    /\ raw \in RawCoordInputs
    /\ orig = raw
    /\ out = NoneVal
    /\ poly = NoneVal
    /\ second = NoneVal
    /\ cli = NoneVal
    /\ data = NoneVal
    /\ parsed = NoneVal
    /\ board = NoneVal
    /\ result = NoneVal

CallParseCoordinates ==
    /\ pc = "coords_start"
    /\ out' = parse_coordinates(raw)
    /\ pc' = "coords_done"
    /\ UNCHANGED <<data, orig, parsed, board, result, raw, poly, second, cli>>

ConstructPolygon ==
    /\ pc = "coords_done"
    /\ ~out.raised
    /\ poly' = NewPolygon(out.value)
    /\ pc' = "polygon_done"
    /\ UNCHANGED <<data, orig, parsed, board, result, raw, out, second, cli>>

NextCoords == CallParseCoordinates \/ ConstructPolygon

SpecCoords == InitCoords /\ [][NextCoords]_vars

\* ------------------------------------------------------------ SpecGeometry
\* is_self_intersecting and Polygon.contains_point called on polygons built
\* with Polygon(points=...).

\* Most vertices of a convex polygon.
MaxVertices == 5

P(a, b) == Point(Num(a), Num(b))

\* The corners and the side midpoints of a square, counter-clockwise.
SquareRing == <<P(0, 0), P(5, 0), P(10, 0), P(10, 5), P(10, 10), P(5, 10), P(0, 10), P(0, 5)>>

\* The vertices of a skewed convex pentagon with a point inside two of its
\* sides, counter-clockwise.
SkewRing == <<P(0, 0), P(4, 0), P(8, 0), P(10, 4), P(12, 8), P(6, 10), P(0, 6)>>

\* The points of ring at the places idx, in ring order.
Pick(ring, idx) ==
    LET places == SelectSeq([i \in 1..Len(ring) |-> i], LAMBDA i : i \in idx)
    IN  [k \in 1..Len(places) |-> ring[places[k]]]

Rotate(s, k) == [i \in 1..Len(s) |-> s[((i + k - 1) % Len(s)) + 1]]
Reverse(s) == [i \in 1..Len(s) |-> s[Len(s) + 1 - i]]

\* Twice the signed area of the triangle p, q, r.
Cross(p, q, r) == (q.x - p.x) * (r.y - p.y) - (q.y - p.y) * (r.x - p.x)

\* Some three of the points span a triangle.
SpansArea(S) == \E p \in S : \E q \in S : \E r \in S : Cross(p, q, r) # 0

\* Every polygon whose vertices are points of a convex ring taken in ring
\* order, from any start and in either direction: convex by construction,
\* with collinear consecutive vertices where three picked points share a side.
ConvexOn(ring) ==
    { Pick(ring, idx) :
        idx \in {I \in SUBSET (1..Len(ring)) :
                    /\ Cardinality(I) >= 3
                    /\ Cardinality(I) <= MaxVertices
                    /\ SpansArea({ring[i] : i \in I})} }

ConvexVertexLists ==
    LET base == ConvexOn(SquareRing) \cup ConvexOn(SkewRing)
        turned == UNION {{Rotate(s, k) : k \in 0..(Len(s) - 1)} : s \in base}
    IN  turned \cup {Reverse(s) : s \in turned}

\* Simple polygons that are not convex: an L, a U and a dart.
LShape == <<P(0, 0), P(10, 0), P(10, 2), P(2, 2), P(2, 10), P(0, 10)>>
UShape == <<P(0, 0), P(10, 0), P(10, 10), P(8, 10), P(8, 2), P(2, 2), P(2, 10), P(0, 10)>>
Dart == <<P(0, 0), P(10, 5), P(0, 10), P(3, 5)>>
SimpleNonConvexVertexLists == {LShape, UShape, Dart, Reverse(LShape), Rotate(UShape, 3)}

\* Polygons whose edges cross: the bowtie of the tests and a pentagram.
BowtieVertices == <<P(0, 0), P(10, 10), P(10, 0), P(0, 10)>>
CrossingVertexLists == {BowtieVertices, <<P(0, 4), P(10, 4), P(2, 0), P(5, 10), P(8, 0)>>}

\* Polygons with a vertex on the interior of an edge it does not belong to.
TouchingVertices == <<P(0, 0), P(10, 0), P(10, 10), P(5, 0), P(0, 10)>>
TouchingVertexLists == {TouchingVertices, <<P(0, 0), P(10, 0), P(10, 10), P(5, 0)>>}

\* Polygons that come back to a vertex: two loops pinched at (4,4), and a
\* square with a corner listed twice in a row.
PinchedVertices == <<P(0, 0), P(4, 4), P(8, 0), P(8, 8), P(4, 4), P(0, 8)>>
RepeatedVertexLists == {PinchedVertices, <<P(0, 0), P(10, 0), P(10, 0), P(10, 10), P(0, 10)>>}

GeometryVertexLists ==
    ConvexVertexLists \cup SimpleNonConvexVertexLists \cup CrossingVertexLists
        \cup TouchingVertexLists \cup RepeatedVertexLists

\* The sum of a sequence of numbers.
RECURSIVE Sum(_)
Sum(s) == IF s = <<>> THEN 0 ELSE Head(s) + Sum(Tail(s))

\* The centroid of a closed polygon's vertices (the closing point counted
\* once), to the thousandth.
Centroid(polygon) ==
    LET n == Len(polygon.points) - 1
    IN  Point(Sum([i \in 1..n |-> polygon.points[i].x]) \div n,
              Sum([i \in 1..n |-> polygon.points[i].y]) \div n)

ProbeCoords == {Num(-5), 0, Num(4), Num(6), Num(10), Num(15)}

\* The points contains_point is asked about: a grid that reaches beyond
\* every bounding box, and the polygon's centroid.
Probes(polygon) == {Point(x, y) : x \in ProbeCoords, y \in ProbeCoords} \cup {Centroid(polygon)}

InitGeometry ==
    /\ pc = "geometry"
    /\ poly \in {NewPolygon(vs) : vs \in GeometryVertexLists}
    /\ raw = NoneVal
    /\ out = NoneVal
    /\ data = NoneVal
    /\ orig = NoneVal
    /\ parsed = NoneVal
    /\ board = NoneVal
    /\ result = NoneVal
    /\ second = NoneVal
    /\ cli = NoneVal

\* is_self_intersecting(polygon)
CallIsSelfIntersecting ==
    /\ pc = "geometry"
    /\ out' = Returned(is_self_intersecting(poly.value))
    /\ pc' = "intersect_done"
    /\ UNCHANGED <<data, orig, parsed, board, result, raw, poly, second, cli>>

\* polygon.contains_point(point)
CallContainsPoint ==
    /\ pc = "geometry"
    /\ \E pt \in Probes(poly.value) :
          /\ raw' = pt
          /\ out' = contains_point(poly.value, pt)
    /\ pc' = "contains_done"
    /\ UNCHANGED <<data, orig, parsed, board, result, poly, second, cli>>

NextGeometry == CallIsSelfIntersecting \/ CallContainsPoint

SpecGeometry == InitGeometry /\ [][NextGeometry]_vars

\* ------------------------------------------------------------ SpecMain
\* cli.main on one input file: parse, validate, render, exit code.  The
\* arguments are the input, -o and optionally --permissive; --export-json,
\* --open and the LLM flags are not given, so phase 4 writes nothing.

\* read_board_file when path.read_text() raises OSError.
FILE_IO_ERROR ==
    [code |-> "FILE_IO_ERROR", json_path |-> <<"$">>, context |-> NoneVal, cause |-> "OSError"]

\* parse_board_json when json.loads raises JSONDecodeError.
MALFORMED_JSON ==
    [code |-> "MALFORMED_JSON", json_path |-> <<"$">>, context |-> NoneVal,
     cause |-> "JSONDecodeError"]

\* What the input file holds: nothing readable, text that is no JSON, or a
\* JSON document.
Inputs == {"unreadable", "malformed", "json"}

\* Phase 1 of main: read_board_file, parse_board_json, parse_board_data, each
\* run only when the step before gave no defect (and data is not None).
ParsePhase(input, d) ==
    IF input = "unreadable"
    THEN ParseOutcome(FALSE, "", NoneVal, <<FILE_IO_ERROR>>, d, <<"read_board_file">>)
    ELSE IF input = "malformed"
    THEN ParseOutcome(FALSE, "", NoneVal, <<MALFORMED_JSON>>, d,
                      <<"read_board_file", "parse_board_json">>)
    ELSE IF d = NoneVal
    THEN ParseOutcome(FALSE, "", NoneVal, <<>>, d, <<"read_board_file", "parse_board_json">>)
    ELSE parse_board_data(d)

\* render_board writing the output although the Board has no boundary.
render_board_without_boundary(b) == Returned(NoneVal)

\* render_board: ValueError for a Board without boundary (an emptied point
\* list fails in bbox); otherwise the figure is drawn and saved, the
\* matplotlib calls being taken to succeed.
render_board(b) ==
    IF b.boundary = NoneVal THEN Raised("ValueError")
    ELSE IF b.boundary.points = <<>> THEN Raised("ValueError")
    ELSE Returned(NoneVal)

\* print(f"ERROR: Rendering failed: {exc}", file=sys.stderr)
RenderingFailed(exc) == [line |-> "ERROR: Rendering failed", cause |-> exc]

\* main's locals before phase 1.
MainLocals(permissive, input) ==
    [permissive |-> permissive, input |-> input,
     parse_errors |-> <<>>, parse_success |-> FALSE,
     validated |-> FALSE, validation_errors |-> <<>>,
     render_attempted |-> FALSE, render_success |-> FALSE,
     output_exists |-> FALSE, stderr |-> <<>>, exit |-> NoneVal]

InitMain ==
    /\ pc = "main"
    /\ cli \in {MainLocals(p, i) : p \in BOOLEAN, i \in Inputs}
    /\ data \in DocsOf(Units)
    /\ cli.input = "json" \/ data = NoneVal
    /\ orig = data
    /\ parsed = NoneVal
    /\ board = NoneVal
    /\ result = NoneVal
    /\ raw = NoneVal
    /\ out = NoneVal
    /\ poly = NoneVal
    /\ second = NoneVal

\* PHASE 1: PARSE.  An exception of parse_board_data leaves main.
MainParse ==
    /\ pc = "main"
    /\ \E o \in {ParsePhase(cli.input, data)} :
          /\ parsed' = o
          /\ data' = o.data
          /\ board' = o.board
          /\ IF o.raised
             THEN /\ cli' = [cli EXCEPT !.exit = Raised(o.exc)]
                  /\ pc' = "main_raised"
             ELSE /\ cli' = [cli EXCEPT !.parse_errors = o.errors,
                                        !.parse_success = (o.errors = <<>> /\ o.board # NoneVal)]
                  /\ pc' = "main_parsed"
    /\ UNCHANGED <<orig, result, raw, out, poly, second>>

\* PHASE 2: VALIDATE, only if parse_success.
MainValidate ==
    /\ pc = "main_parsed"
    /\ IF cli.parse_success
       THEN \E r \in {validate_board(board)} :
               /\ result' = r
               /\ IF r.raised
                  THEN /\ cli' = [cli EXCEPT !.validated = TRUE, !.exit = Raised(r.exc)]
                       /\ pc' = "main_raised"
                  ELSE /\ cli' = [cli EXCEPT !.validated = TRUE, !.validation_errors = r.value]
                       /\ pc' = "main_validated"
       ELSE /\ pc' = "main_validated"
            /\ UNCHANGED <<result, cli>>
    /\ UNCHANGED <<data, orig, parsed, board, raw, out, poly, second>>

\* PHASE 3 rendering whenever the parse succeeded, whatever validation said.
MainRenderUngated ==
    /\ pc = "main_validated"
    /\ IF cli.parse_success
       THEN \E r \in {render_board(board)} :
               cli' = [cli EXCEPT !.render_attempted = TRUE,
                                  !.render_success = ~r.raised,
                                  !.output_exists = ~r.raised,
                                  !.stderr = IF r.raised THEN Append(@, RenderingFailed(r.exc))
                                             ELSE @]
       ELSE UNCHANGED cli
    /\ pc' = "main_rendered"
    /\ UNCHANGED <<data, orig, parsed, board, result, raw, out, poly, second>>

\* PHASE 3: RENDER if parse succeeded and (no validation errors or
\* permissive); otherwise the validation errors are printed.
MainRender ==
    /\ pc = "main_validated"
    /\ IF cli.parse_success /\ (cli.validation_errors = <<>> \/ cli.permissive)
       THEN \E r \in {render_board(board)} :
               cli' = [cli EXCEPT !.render_attempted = TRUE,
                                  !.render_success = ~r.raised,
                                  !.output_exists = ~r.raised,
                                  !.stderr = IF r.raised THEN Append(@, RenderingFailed(r.exc))
                                             ELSE @]
       ELSE cli' = [cli EXCEPT !.stderr = IF cli.validation_errors # <<>> /\ ~cli.permissive
                                          THEN @ \o cli.validation_errors ELSE @]
    /\ pc' = "main_rendered"
    /\ UNCHANGED <<data, orig, parsed, board, result, raw, out, poly, second>>

\* DETERMINE EXIT CODE (phase 4 in between changes nothing here).
MainExit ==
    /\ pc = "main_rendered"
    /\ cli' = IF cli.validation_errors # <<>> /\ ~cli.permissive
              THEN [cli EXCEPT !.exit = Returned(1)]
              ELSE IF ~cli.parse_success
              THEN [cli EXCEPT !.stderr = @ \o cli.parse_errors, !.exit = Returned(1)]
              ELSE IF ~cli.render_success
              THEN [cli EXCEPT !.exit = Returned(1)]
              ELSE [cli EXCEPT !.exit = Returned(0)]
    /\ pc' = "main_exited"
    /\ UNCHANGED <<data, orig, parsed, board, result, raw, out, poly, second>>

NextMain == MainParse \/ MainValidate \/ MainRender \/ MainExit

SpecMain == InitMain /\ [][NextMain]_vars

\* ============================================================ claims

\* Helpers of the claims: what a returned defect list holds.
HasDefect(errs, code, path) ==
    \E k \in DOMAIN errs : errs[k].code = code /\ errs[k].json_path = path

CountCode(errs, code) == Cardinality({k \in DOMAIN errs : errs[k].code = code})

DeclaredNets(b) == {b.nets[i].name : i \in DOMAIN b.nets}

\* The stackup's layer list (empty when the stackup has none).
LayerList(b) ==
    IF \E i \in DOMAIN b.stackup.items : b.stackup.items[i].key = "layers"
    THEN Lookup(b.stackup, "layers").items
    ELSE <<>>

DeclaredLayers(b) == {LayerList(b)[i].name : i \in DOMAIN LayerList(b)}

\* The layer indices are not a run of consecutive integers.
IndicesNotConsecutive(b) ==
    LET idx == {LayerList(b)[i].index : i \in DOMAIN LayerList(b)}
    IN  \/ Cardinality(idx) # Len(LayerList(b))
        \/ \E m \in idx : \E n \in idx : n - m >= Len(LayerList(b))

StackupMalformed(b) ==
    \/ LayerList(b) = <<>>
    \/ IndicesNotConsecutive(b)

ValidateReturned == pc = "validated" /\ ~result.raised

\* C1: whenever validate_board returns, every violated trace condition
\* (path < 2 points, undeclared net, unknown layer, width <= 0) and every
\* violated via condition (undeclared net, hole_size >= diameter, span layer
\* unknown) has its own defect in the list, and MISSING_BOUNDARY, EMPTY_BOARD
\* and MALFORMED_STACKUP are in it whenever their condition holds.
C1_AllDefectsAccumulate ==
    ValidateReturned =>
        LET errs == result.value
            nets == DeclaredNets(board)
            layers == DeclaredLayers(board)
        IN  /\ \A i \in DOMAIN board.traces :
                  LET id == board.traces[i].key
                      t == board.traces[i].val
                  IN  /\ Len(t.path.points) < 2 =>
                            HasDefect(errs, "MALFORMED_TRACE",
                                      <<"$", "traces", id, "path", "coordinates">>)
                      /\ t.net_name \notin nets =>
                            HasDefect(errs, "DANGLING_TRACE", <<"$", "traces", id, "net_name">>)
                      /\ t.layer_hash \notin layers =>
                            HasDefect(errs, "NONEXISTENT_LAYER",
                                      <<"$", "traces", id, "layer_hash">>)
                      /\ t.width <= 0 =>
                            HasDefect(errs, "NEGATIVE_WIDTH", <<"$", "traces", id, "width">>)
            /\ \A i \in DOMAIN board.vias :
                  LET id == board.vias[i].key
                      v == board.vias[i].val
                  IN  /\ v.net_name \notin nets =>
                            HasDefect(errs, "NONEXISTENT_NET", <<"$", "vias", id, "net_name">>)
                      /\ v.hole_size >= v.diameter =>
                            HasDefect(errs, "INVALID_VIA_GEOMETRY",
                                      <<"$", "vias", id, "hole_size">>)
                      /\ (\E k \in {"start_layer", "end_layer"} :
                              k \notin DOMAIN v.span \/ v.span[k] \notin layers) =>
                            HasDefect(errs, "NONEXISTENT_LAYER", <<"$", "vias", id, "span">>)
            /\ (board.boundary = NoneVal \/ Len(board.boundary.points) < 3) =>
                  HasDefect(errs, "MISSING_BOUNDARY", <<"$", "boundary">>)
            /\ (board.components = <<>> /\ board.traces = <<>>) =>
                  HasDefect(errs, "EMPTY_BOARD", <<"$">>)
            /\ StackupMalformed(board) =>
                  HasDefect(errs, "MALFORMED_STACKUP", <<"$", "stackup", "layers">>)

\* A call that returned four defects for one trace next to a via defect and
\* two board-level defects.
C1_Witness ==
    /\ ValidateReturned
    /\ \E i \in DOMAIN board.traces :
          /\ Len(board.traces[i].val.path.points) < 2
          /\ board.traces[i].val.net_name \notin DeclaredNets(board)
          /\ board.traces[i].val.layer_hash \notin DeclaredLayers(board)
          /\ board.traces[i].val.width <= 0
    /\ \E i \in DOMAIN board.vias :
          board.vias[i].val.hole_size >= board.vias[i].val.diameter
    /\ board.boundary = NoneVal
    /\ StackupMalformed(board)
    /\ Len(result.value) >= 7

\* C2: validate_board never raises, whatever Board it is given.
C2_NeverRaises == pc = "validated" => ~result.raised

\* The group of the check table a defect belongs to.
DefectGroup(d) ==
    IF d.code = "MISSING_BOUNDARY" THEN "boundary"
    ELSE IF d.code = "SELF_INTERSECTING_BOUNDARY" THEN "self_intersection"
    ELSE IF d.code = "EMPTY_BOARD" THEN "empty"
    ELSE IF d.code = "MALFORMED_STACKUP" THEN "stackup"
    ELSE d.json_path[2]

\* The order of the check table of the specification.
TableRank(d) ==
    CASE DefectGroup(d) = "boundary" -> 1
      [] DefectGroup(d) = "self_intersection" -> 2
      [] DefectGroup(d) = "traces" -> 3
      [] DefectGroup(d) = "vias" -> 4
      [] DefectGroup(d) = "empty" -> 5
      [] DefectGroup(d) = "components" -> 6
      [] DefectGroup(d) = "stackup" -> 7

\* The order of the code: the self-intersection check runs after EMPTY_BOARD.
FlowRank(d) ==
    CASE DefectGroup(d) = "boundary" -> 1
      [] DefectGroup(d) = "traces" -> 2
      [] DefectGroup(d) = "vias" -> 3
      [] DefectGroup(d) = "empty" -> 4
      [] DefectGroup(d) = "self_intersection" -> 5
      [] DefectGroup(d) = "components" -> 6
      [] DefectGroup(d) = "stackup" -> 7

AllNumbers(r) == \A i \in DOMAIN r.items : r.items[i].cls \in {"int", "float"}
AllPairs(r) == \A i \in DOMAIN r.items : r.items[i].cls = "list" /\ Len(r.items[i].items) = 2

CoordsCalled == pc \in {"coords_done", "polygon_done"}

\* The point sequences r can spell: a list of numbers spells one point for
\* every two of them, another list one point for each item.
SeqsOfLength(r) ==
    IF r.cls # "list" THEN {}
    ELSE IF AllNumbers(r)
    THEN (IF Len(r.items) % 2 = 0 THEN [1..(Len(r.items) \div 2) -> CoordPoints] ELSE {})
    ELSE [1..Len(r.items) -> CoordPoints]

\* C8: parse_coordinates returns the described points for the flat and for
\* the nested spelling of the same point sequence (so the two results are
\* equal); for an empty list, an odd-length list of numbers, or a list that
\* is neither all numbers nor all pairs it raises a ValueError and returns no
\* points; its argument is as the caller built it.
C8_ParseCoordinates ==
    CoordsCalled =>
        /\ raw = orig
        /\ \A ps \in SeqsOfLength(raw) :
              (ps # <<>> /\ (raw = FlatOf(ps) \/ raw = NestedOf(ps))) => out = Returned(ps)
        /\ (raw.cls = "list" /\ (\/ raw.items = <<>>
                                 \/ AllNumbers(raw) /\ Len(raw.items) % 2 = 1
                                 \/ ~AllNumbers(raw) /\ ~AllPairs(raw))) =>
              (out.raised /\ IsValueError(out.exc) /\ out.value = NoneVal)

\* parse_coordinates has returned the two points of a flat list of four numbers.
C8_Witness ==
    /\ CoordsCalled
    /\ raw.cls = "list"
    /\ AllNumbers(raw) /\ Len(raw.items) = 4
    /\ ~out.raised /\ Len(out.value) = 2
    /\ out.value[1] # out.value[2]

\* C9: a Polygon that construction accepts has at least 3 points and its
\* first point equals its last; an open ring of n >= 3 points comes out as
\* the n points followed by the first, a closed ring of >= 3 points comes out
\* unchanged, and fewer than 3 points are rejected.
C9_PolygonClosed ==
    pc = "polygon_done" =>
        LET given == out.value
            n == Len(given)
        IN  /\ ~poly.raised =>
                  /\ Len(poly.value.points) >= 3
                  /\ poly.value.points[1] = poly.value.points[Len(poly.value.points)]
            /\ (n >= 3 /\ given[1] # given[n]) =>
                  (~poly.raised /\ poly.value.points = given \o <<given[1]>>
                   /\ Len(poly.value.points) = n + 1)
            /\ (n >= 3 /\ given[1] = given[n]) =>
                  (~poly.raised /\ poly.value.points = given)
            /\ n < 3 => poly.raised

\* A ring supplied closed has been accepted.
C9_Witness ==
    /\ pc = "polygon_done"
    /\ ~poly.raised
    /\ Len(out.value) = 4
    /\ out.value[1] = out.value[4]
    /\ out.value[2] # out.value[3]


\* ------------------------------------------------------------ parse pipeline claims

\* metadata.designUnits as the document declares it (Absent when it
\* declares none).
DeclaredUnit(d) ==
    IF IsDict(d) /\ HasDictAt(d, "metadata") /\ HasKey(Lookup(d, "metadata"), "designUnits")
    THEN Lookup(Lookup(d, "metadata"), "designUnits")
    ELSE Absent

ValidUnit(d) == DeclaredUnit(d) \in {JStr("MICRON"), JStr("MILLIMETER")}
UnknownUnit(d) == DeclaredUnit(d) \notin {Absent, JStr("MICRON"), JStr("MILLIMETER")}

ParseCalled == pc \in {"parsed", "checked"}

\* C3: parse_board_data never raises: whatever decoded JSON value it is
\* given, it returns and no exception reaches the caller.
C3_NeverRaises == ParseCalled => ~parsed.raised

\* new is old with every number, at any depth, multiplied by 0.001 (micron)
\* or numerically unchanged, and every other leaf, key and length as it was.
RECURSIVE ScaledLeafwise(_, _, _)
ScaledLeafwise(old, new, micron) ==
    IF old.cls \in {"int", "float"}
    THEN /\ new.cls \in {"int", "float"}
         /\ IF micron THEN new.n * MM = old.n * MICRON_TO_MM ELSE new.n = old.n
    ELSE IF old.cls \in {"list", "dict"}
    THEN /\ new.cls = old.cls
         /\ Len(new.items) = Len(old.items)
         /\ \A i \in DOMAIN old.items :
              IF old.cls = "dict"
              THEN /\ new.items[i].key = old.items[i].key
                   /\ ScaledLeafwise(old.items[i].val, new.items[i].val, micron)
              ELSE ScaledLeafwise(old.items[i], new.items[i], micron)
    ELSE new = old

NormalizeReturned == pc = "normalized" /\ ~parsed.raised

SpatialKeys == Range(spatial_sections)

SpatialScaled ==
    /\ Len(data.items) = Len(orig.items)
    /\ \A i \in DOMAIN orig.items :
         orig.items[i].key \in SpatialKeys =>
            /\ data.items[i].key = orig.items[i].key
            /\ ScaledLeafwise(orig.items[i].val, data.items[i].val,
                              DeclaredUnit(orig) = JStr("MICRON"))

\* C4 as stated: with a declared MICRON or MILLIMETER, normalize_units
\* scales every number under the six spatial subtrees by 0.001 or leaves it
\* numerically unchanged, leaves booleans and strings there as they were,
\* and leaves everything outside those subtrees exactly as it was.
C4_OutsideUntouched ==
    (NormalizeReturned /\ ValidUnit(orig)) =>
        /\ SpatialScaled
        /\ \A i \in DOMAIN orig.items :
             orig.items[i].key \notin SpatialKeys => data.items[i] = orig.items[i]

\* C4: with a declared MICRON or MILLIMETER, normalize_units scales every
\* number under the six spatial subtrees by 0.001 or leaves it numerically
\* unchanged, leaves booleans and strings there as they were, and leaves
\* everything outside those subtrees as it was except metadata.designUnits,
\* which reads MILLIMETER afterwards.
C4_OutsideUntouchedButUnit ==
    (NormalizeReturned /\ ValidUnit(orig)) =>
        /\ SpatialScaled
        /\ \A i \in DOMAIN orig.items :
             orig.items[i].key \notin SpatialKeys =>
                IF orig.items[i].key = "metadata"
                THEN data.items[i] =
                        Entry("metadata",
                              Put(orig.items[i].val, "designUnits", JStr("MILLIMETER")))
                ELSE data.items[i] = orig.items[i]

\* A MICRON document was normalized: a boundary coordinate of 10000 reads
\* 10, the component's boolean is still a boolean, and the unit was rewritten.
C4_Witness ==
    /\ NormalizeReturned
    /\ orig = BaseDoc("MICRON")
    /\ Lookup(Lookup(data, "boundary"), "coordinates").items[2].items[1] = JFloat(Num(10))
    /\ Lookup(Lookup(Lookup(data, "components"), "C1"), "user_preplaced") = JBool(TRUE)
    /\ Lookup(Lookup(Lookup(data, "pours"), "p1"), "clearance") = JFloat(Num(1))
    /\ DeclaredUnit(data) = JStr("MILLIMETER")

\* C5: with a declared unit other than MICRON and MILLIMETER,
\* normalize_units leaves the document as it was and returns exactly one
\* INVALID_UNIT_SPECIFICATION defect at $.metadata.designUnits, and
\* parse_board_data returns no Board and exactly that defect, having run
\* neither the builder nor the assembler.
C5_UnknownUnitHalts ==
    UnknownUnit(orig) =>
        /\ pc = "normalized" =>
              /\ ~parsed.raised
              /\ data = orig
              /\ Len(parsed.errors) = 1
              /\ parsed.errors[1].code = "INVALID_UNIT_SPECIFICATION"
              /\ parsed.errors[1].json_path = <<"$", "metadata", "designUnits">>
        /\ ParseCalled =>
              /\ ~parsed.raised
              /\ parsed.board = NoneVal
              /\ Len(parsed.errors) = 1
              /\ parsed.errors[1].code = "INVALID_UNIT_SPECIFICATION"
              /\ parsed.errors[1].json_path = <<"$", "metadata", "designUnits">>
              /\ parsed.calls = <<"normalize_units">>
              /\ data = orig

\* parse_board_data was called on an otherwise well-formed document
\* declaring INCH.
C5_Witness ==
    /\ pc = "parsed"
    /\ DeclaredUnit(orig) = JStr("INCH")
    /\ \E u \in Units : orig = Deviate(BaseDoc(u), Deviation(<<"metadata", "designUnits">>, JStr("INCH")))
    /\ parsed.board = NoneVal
    /\ Len(parsed.errors) = 1

\* The single malformations of a boundary, a trace path and a keepout shape.
MalformedBoundary(u) ==
    { Deviation(<<"boundary">>, Absent), Deviation(<<"boundary">>, JDict(<<>>)) }
    \cup { Deviation(<<"boundary", "coordinates">>, c) :
             c \in {JList(<<>>), OddCoords(u), MixedCoords(u)} }

MalformedTracePath(u) ==
    { Deviation(<<"traces", "t1", "path", "coordinates">>, c) :
        c \in {JList(<<>>), OddCoords(u), MixedCoords(u)} }

MalformedKeepoutShape(u) ==
    { Deviation(<<"keepouts">>, JList(<<KeepoutDoc("k1", s)>>)) :
        s \in {Del(CircleShape(u, Len_(u, 1)), "center"), CircleShape(u, JStr("wide")),
               PolygonShape(OddCoords(u)), PolygonShape(JList(<<>>))} }

\* C6: a single malformed boundary, trace path or keepout shape in an
\* otherwise well-formed document never makes parse_board_data return no
\* Board.
C6_BuilderDegrades ==
    \A u \in Units :
        \A dev \in MalformedBoundary(u) \cup MalformedTracePath(u) \cup MalformedKeepoutShape(u) :
            (ParseCalled /\ orig = Deviate(BaseDoc(u), dev)) => parsed.board # NoneVal

\* Structural violations in the raw document.
ShortPolygonKeepout(d) ==
    /\ HasKey(d, "keepouts") /\ IsList(Lookup(d, "keepouts"))
    /\ \E i \in DOMAIN Lookup(d, "keepouts").items :
          LET k == Lookup(d, "keepouts").items[i]
          IN  /\ HasDictAt(k, "shape") /\ HasKey(Lookup(k, "shape"), "coordinates")
              /\ Lookup(k, "shape") = PolygonShape(Lookup(Lookup(k, "shape"), "coordinates"))
              /\ \E u \in Units : Lookup(Lookup(k, "shape"), "coordinates") = TwoPointCoords(u)

ShortBoundary(d) ==
    /\ HasDictAt(d, "boundary") /\ HasKey(Lookup(d, "boundary"), "coordinates")
    /\ \E u \in Units : Lookup(Lookup(d, "boundary"), "coordinates") = TwoPointCoords(u)

NonPositiveCircle(k) ==
    /\ HasDictAt(k, "shape")
    /\ Get(Lookup(k, "shape"), "type", NoneVal) = JStr("circle")
    /\ HasNumber(Lookup(k, "shape"), "radius") /\ Lookup(Lookup(k, "shape"), "radius").n <= 0

NonPositiveCircleKeepout(d) ==
    /\ HasKey(d, "keepouts") /\ IsList(Lookup(d, "keepouts"))
    /\ \E i \in DOMAIN Lookup(d, "keepouts").items :
          NonPositiveCircle(Lookup(d, "keepouts").items[i])

\* The rotation of component C1 as the document gives it.
RawRotation(d) ==
    IF /\ HasDictAt(d, "components") /\ HasDictAt(Lookup(d, "components"), "C1")
       /\ HasDictAt(Lookup(Lookup(d, "components"), "C1"), "transform")
       /\ HasNumber(Lookup(Lookup(Lookup(d, "components"), "C1"), "transform"), "rotation")
    THEN Lookup(Lookup(Lookup(Lookup(d, "components"), "C1"), "transform"), "rotation")
    ELSE Absent

RotationOutOfRange(d) ==
    RawRotation(d) # Absent /\ (RawRotation(d).n < 0 \/ RawRotation(d).n > Num(360))

\* The rotation after the unit scaling normalize_units applies to it.
RotationOutOfRangeScaled(d) ==
    /\ RawRotation(d) # Absent
    /\ IF DeclaredUnit(d) = JStr("MICRON")
       THEN \/ RawRotation(d).n * MICRON_TO_MM < 0
            \/ RawRotation(d).n * MICRON_TO_MM > Num(360) * MM
       ELSE RawRotation(d).n < 0 \/ RawRotation(d).n > Num(360)

MissingRequiredField(d) ==
    \/ ~HasKey(d, "nets")
    \/ /\ HasDictAt(d, "components") /\ HasDictAt(Lookup(d, "components"), "C1")
       /\ \/ ~HasKey(Lookup(Lookup(d, "components"), "C1"), "reference")
          \/ ~HasKey(Lookup(Lookup(d, "components"), "C1"), "transform")
    \/ /\ HasDictAt(d, "traces") /\ HasDictAt(Lookup(d, "traces"), "t1")
       /\ ~HasKey(Lookup(Lookup(d, "traces"), "t1"), "width")
    \/ /\ HasDictAt(d, "vias") /\ HasDictAt(Lookup(d, "vias"), "v1")
       /\ ~HasKey(Lookup(Lookup(d, "vias"), "v1"), "center")

OnePARSE_ERROR ==
    /\ ~parsed.raised
    /\ parsed.board = NoneVal
    /\ Len(parsed.errors) = 1
    /\ parsed.errors[1].code = "PARSE_ERROR"

\* C7 as stated: with a valid unit, a polygon with fewer than 3 points, a
\* circle radius <= 0, a rotation outside [0,360] or a missing required
\* field makes parse_board_data return no Board and exactly one defect, a
\* PARSE_ERROR.
C7_EveryViolationIsParseError ==
    (ParseCalled /\ ValidUnit(orig)
       /\ (\/ ShortPolygonKeepout(orig) \/ ShortBoundary(orig)
           \/ NonPositiveCircleKeepout(orig)
           \/ RotationOutOfRange(orig)
           \/ MissingRequiredField(orig)))
    => OnePARSE_ERROR

\* C7: with a valid unit, a keepout polygon with fewer than 3 points, a
\* rotation that after unit scaling lies outside [0,360] or a missing
\* required field makes parse_board_data return no Board and exactly one
\* defect, a PARSE_ERROR; a boundary with fewer than 3 points and a circle
\* keepout with radius <= 0 are degraded to absent in whatever Board is
\* returned, and alone they do not prevent one.
C7_ViolationsThatRaise ==
    (ParseCalled /\ ValidUnit(orig)) =>
        /\ (\/ ShortPolygonKeepout(orig)
            \/ RotationOutOfRangeScaled(orig)
            \/ MissingRequiredField(orig)) => OnePARSE_ERROR
        /\ (ShortBoundary(orig) /\ parsed.board # NoneVal) => parsed.board.boundary = NoneVal
        /\ (NonPositiveCircleKeepout(orig) /\ parsed.board # NoneVal) =>
              \A i \in DOMAIN parsed.board.keepouts :
                  NonPositiveCircle(Lookup(orig, "keepouts").items[i]) =>
                      parsed.board.keepouts[i].shape = NoneVal
        /\ \A u \in Units :
              \A dev \in { Deviation(<<"boundary", "coordinates">>, TwoPointCoords(u)),
                           Deviation(<<"keepouts">>,
                                     JList(<<KeepoutDoc("k1", CircleShape(u, JInt(0)))>>)),
                           Deviation(<<"keepouts">>,
                                     JList(<<KeepoutDoc("k1", CircleShape(u, JInt(Num(-1))))>>)) } :
                  orig = Deviate(BaseDoc(u), dev) => parsed.board # NoneVal

\* A MILLIMETER document whose only flaw is a rotation of 400 was parsed
\* into one PARSE_ERROR.
C7_Witness ==
    /\ pc = "parsed"
    /\ orig = Deviate(BaseDoc("MILLIMETER"),
                      Deviation(<<"components", "C1", "transform", "rotation">>, JInt(Num(400))))
    /\ parsed.errors = <<PARSE_ERROR("ValidationError")>>
    /\ parsed.board = NoneVal


\* ------------------------------------------------------------ C11..C20

ComponentDefects(errs) == SelectSeq(errs, LAMBDA e : Len(e.json_path) >= 2 /\ e.json_path[2] = "components")

RotationInRange(c) == 0 <= c.transform.rotation /\ c.transform.rotation <= Num(360)

\* C12: on a Board without boundary validate_board returns no defect of a
\* component or a pin (no COMPONENT_OUTSIDE_BOUNDARY, INVALID_ROTATION,
\* INVALID_PIN_REFERENCE, pin-level NONEXISTENT_NET), whatever they hold; on
\* a Board with a boundary every component has an INVALID_ROTATION defect
\* exactly when its rotation is outside [0,360], and every pin an
\* INVALID_PIN_REFERENCE defect exactly when its comp_name is not its
\* component's name and a NONEXISTENT_NET defect exactly when its net is
\* not declared.
C12_NoBoundarySkipsComponents ==
    ValidateReturned =>
        LET errs == result.value
            nets == DeclaredNets(board)
        IN  IF board.boundary = NoneVal
            THEN ComponentDefects(errs) = <<>>
            ELSE \A i \in DOMAIN board.components :
                    LET id == board.components[i].key
                        c == board.components[i].val
                    IN  /\ ~RotationInRange(c) <=>
                              HasDefect(errs, "INVALID_ROTATION",
                                        <<"$", "components", id, "transform", "rotation">>)
                        /\ \A j \in DOMAIN c.pins :
                              LET pid == c.pins[j].key
                                  pin == c.pins[j].val
                              IN  /\ pin.comp_name # c.name <=>
                                        HasDefect(errs, "INVALID_PIN_REFERENCE",
                                            <<"$", "components", id, "pins", pid, "comp_name">>)
                                  /\ pin.net_name \notin nets <=>
                                        HasDefect(errs, "NONEXISTENT_NET",
                                            <<"$", "components", id, "pins", pid, "net_name">>)

\* A board without boundary whose component has a rotation of 400 or -90, a
\* pin naming another component and a pin on an undeclared net: the call
\* returned and reported none of it.
C12_Witness ==
    /\ ValidateReturned
    /\ board.boundary = NoneVal
    /\ \E i \in DOMAIN board.components :
          LET c == board.components[i].val
          IN  /\ ~RotationInRange(c)
              /\ \E j \in DOMAIN c.pins : c.pins[j].val.comp_name # c.name
              /\ \E j \in DOMAIN c.pins : c.pins[j].val.net_name \notin DeclaredNets(board)
    /\ ComponentDefects(result.value) = <<>>

\* A board with a boundary whose component has all three kinds of defect.
C12_WithBoundary ==
    /\ ValidateReturned
    /\ board.boundary # NoneVal
    /\ \E i \in DOMAIN board.components :
          /\ ~RotationInRange(board.components[i].val)
          /\ Len(ComponentDefects(result.value)) >= 4

\* The Board of the minimal_board fixture: the 10 x 10 square, layers TOP
\* (index 0) and BOTTOM (index 1), the net GND, no component, trace or via.
MinimalBoard(b) ==
    /\ b.boundary = Square
    /\ LayerList(b) = <<Layer("TOP", "TOP", 0), Layer("BOTTOM", "BOTTOM", 1)>>
    /\ b.nets = <<Net("GND")>>
    /\ b.components = <<>> /\ b.traces = <<>> /\ b.vias = <<>>

\* C13: validate_board on the minimal board returns exactly one defect, of
\* kind EMPTY_BOARD; on any board it returns one EMPTY_BOARD defect when
\* components and traces are both empty, vias or not, and none otherwise.
C13_EmptyBoard ==
    ValidateReturned =>
        /\ MinimalBoard(board) =>
              /\ Len(result.value) = 1
              /\ result.value[1].code = "EMPTY_BOARD"
        /\ CountCode(result.value, "EMPTY_BOARD") =
              (IF board.components = <<>> /\ board.traces = <<>> THEN 1 ELSE 0)

\* validate_board has returned on the minimal board.
C13_Witness ==
    /\ ValidateReturned
    /\ MinimalBoard(board)
    /\ result.value = <<ValidationError("EMPTY_BOARD", <<"$">>, NoneVal)>>

\* A board with a via and neither component nor trace, reported empty.
C13_WithVias ==
    /\ ValidateReturned
    /\ board.vias # <<>>
    /\ CountCode(result.value, "EMPTY_BOARD") = 1

\* How many defects of a result carry this code and this path.
CountDefect(errs, code, path) ==
    Cardinality({k \in DOMAIN errs : errs[k].code = code /\ errs[k].json_path = path})

DanglingOf(errs, id) ==
    SelectSeq(errs, LAMBDA e : e.code = "DANGLING_TRACE"
                               /\ e.json_path = <<"$", "traces", id, "net_name">>)

\* A sequence of names without repetition.
NoRepeats(s) == \A i \in DOMAIN s : \A j \in DOMAIN s : s[i] = s[j] => i = j

\* C15: for a trace whose net_name is not a declared net validate_board
\* returns exactly one DANGLING_TRACE defect, whose context holds the
\* trace's id, the net it names and a list of exactly the declared net
\* names; for a trace on a declared net it returns none.
C15_DanglingTrace ==
    ValidateReturned =>
        /\ \A i \in DOMAIN board.traces :
              LET id == board.traces[i].key
                  t == board.traces[i].val
                  hits == DanglingOf(result.value, id)
              IN  IF t.net_name \in DeclaredNets(board)
                  THEN hits = <<>>
                  ELSE /\ Len(hits) = 1
                       /\ hits[1].context.trace_id = id
                       /\ hits[1].context.referenced_net = t.net_name
                       /\ Range(hits[1].context.available_nets) = DeclaredNets(board)
                       /\ NoRepeats(hits[1].context.available_nets)
        /\ CountCode(result.value, "DANGLING_TRACE")
              = Cardinality({i \in DOMAIN board.traces :
                                board.traces[i].val.net_name \notin DeclaredNets(board)})

\* A trace on an undeclared net of a board that declares a net, reported
\* once with its context.
C15_Witness ==
    /\ ValidateReturned
    /\ board.nets # <<>>
    /\ \E i \in DOMAIN board.traces :
          /\ board.traces[i].val.net_name \notin DeclaredNets(board)
          /\ Len(DanglingOf(result.value, board.traces[i].key)) = 1
          /\ DanglingOf(result.value, board.traces[i].key)[1].context.available_nets # <<>>

\* C16: validate_board returns exactly one MALFORMED_STACKUP defect when
\* the stackup has no layers or the layer indices, sorted, are not a run of
\* consecutive integers (a gap or a repeated index), none when they are
\* such a run from whatever start, and never more than one.
C16_MalformedStackup ==
    ValidateReturned =>
        CountCode(result.value, "MALFORMED_STACKUP")
            = (IF StackupMalformed(board) THEN 1 ELSE 0)

\* The layer indices of a board, in the order of the layers.
IndexRun(b) == [i \in DOMAIN LayerList(b) |-> LayerList(b)[i].index]

\* The stackup with indices [0,1,3]: one MALFORMED_STACKUP defect, which
\* lists the sorted indices.
C16_Witness ==
    /\ ValidateReturned
    /\ IndexRun(board) = <<0, 1, 3>>
    /\ CountCode(result.value, "MALFORMED_STACKUP") = 1
    /\ \E k \in DOMAIN result.value :
          /\ result.value[k].code = "MALFORMED_STACKUP"
          /\ result.value[k].context = [indices |-> <<0, 1, 3>>]

\* Consecutive indices that start at 5, and unsorted ones: no defect.
C16_ConsecutiveFromFive ==
    /\ ValidateReturned
    /\ IndexRun(board) = <<5, 6, 7>>
    /\ CountCode(result.value, "MALFORMED_STACKUP") = 0

\* The polygon under test is one of the convex ones.
IsConvexPolygon == \E vs \in ConvexVertexLists : poly = NewPolygon(vs)

\* Three consecutive vertices of the polygon under test are collinear.
HasCollinearVertices ==
    \E i \in 1..(Len(poly.value.points) - 2) :
        Cross(poly.value.points[i], poly.value.points[i + 1], poly.value.points[i + 2]) = 0

\* C17: is_self_intersecting returns false for every convex polygon, one
\* with collinear consecutive vertices included, and true for the bowtie
\* (0,0),(10,10),(10,0),(0,10).
C17_SelfIntersection ==
    pc = "intersect_done" =>
        /\ IsConvexPolygon => out.value = FALSE
        /\ poly = NewPolygon(BowtieVertices) => out.value = TRUE

\* A convex polygon with collinear consecutive vertices, found free of
\* crossings.
C17_Witness ==
    /\ pc = "intersect_done"
    /\ IsConvexPolygon
    /\ HasCollinearVertices
    /\ out.value = FALSE

\* The bowtie, found self-intersecting.
C17_Bowtie ==
    /\ pc = "intersect_done"
    /\ poly = NewPolygon(BowtieVertices)
    /\ out.value = TRUE

\* The polygon under test is simple: convex, or the L, the U or the dart.
IsSimplePolygon ==
    \/ IsConvexPolygon
    \/ \E vs \in SimpleNonConvexVertexLists : poly = NewPolygon(vs)

\* contains_point has been asked about the centroid of the polygon.
CentroidAsked == pc = "contains_done" /\ raw = Centroid(poly.value)

\* C18 as stated: contains_point returns true for the centroid of every
\* simple polygon, convex or not.
C18_CentroidOfSimple ==
    (CentroidAsked /\ IsSimplePolygon) => out.value = TRUE

\* C18 amended: contains_point returns true for the centroid of every
\* convex polygon; the centroid of a simple polygon that is not convex can
\* lie outside it, and contains_point then returns false.
C18_CentroidOfConvex ==
    (CentroidAsked /\ IsConvexPolygon) => out.value = TRUE

\* The centroid of a convex polygon with collinear vertices, found inside.
C18_Witness ==
    /\ CentroidAsked
    /\ IsConvexPolygon
    /\ HasCollinearVertices
    /\ Len(poly.value.points) = 6
    /\ out.value = TRUE

\* The centroid (4, 4) of the L, outside both of its arms, found outside.
C18_CentroidOutsideL ==
    /\ CentroidAsked
    /\ poly = NewPolygon(LShape)
    /\ raw = P(4, 4)
    /\ out.value = FALSE

\* The point lies strictly outside the bounding box of the polygon.
OutsideBBox(point, polygon) ==
    \/ point.x < bbox(polygon)[1]
    \/ point.y < bbox(polygon)[2]
    \/ point.x > bbox(polygon)[3]
    \/ point.y > bbox(polygon)[4]

\* C19: contains_point returns false for every point strictly outside the
\* bounding box of a closed polygon (left of it, right of it, above or
\* below), whether the polygon is convex, simple or self-intersecting.
C19_OutsideBBox ==
    (pc = "contains_done" /\ OutsideBBox(raw, poly.value)) => out.value = FALSE

\* A point left of the bowtie at the height of two of its vertices, found
\* outside.
C19_Witness ==
    /\ pc = "contains_done"
    /\ poly = NewPolygon(BowtieVertices)
    /\ raw = P(-5, 10)
    /\ OutsideBBox(raw, poly.value)
    /\ out.value = FALSE

\* C20: a component rotation outside [0,360] in the raw document never
\* reaches the validator: parse_board_data returns no Board and one
\* PARSE_ERROR defect, and validate_board reports no INVALID_ROTATION on a
\* Board parse_board_data returned.
C20_RawRotationNeverValidated ==
    /\ (ParseCalled /\ ValidUnit(orig) /\ RotationOutOfRange(orig)) => OnePARSE_ERROR
    /\ (pc = "checked" /\ ~result.raised) => CountCode(result.value, "INVALID_ROTATION") = 0

\* The part of C20 the code keeps: no Board parse_board_data returned
\* carries a rotation outside [0,360], and validate_board reports no
\* INVALID_ROTATION on it.
C20_ReturnedBoardsInRange ==
    /\ (ParseCalled /\ ~parsed.raised /\ board # NoneVal) =>
          \A i \in DOMAIN board.components : RotationInRange(board.components[i].val)
    /\ (pc = "checked" /\ ~result.raised) => CountCode(result.value, "INVALID_ROTATION") = 0

\* A MICRON document whose component is rotated by 400 has been parsed
\* into a Board (rotation 0.4) and validated without a rotation defect.
C20_ScaledRotationValidated ==
    /\ pc = "checked"
    /\ DeclaredUnit(orig) = JStr("MICRON")
    /\ RotationOutOfRange(orig)
    /\ board # NoneVal
    /\ ~result.raised
    /\ CountCode(result.value, "INVALID_ROTATION") = 0


\* ------------------------------------------------------------ C21..C30

\* The coordinates of trace t1's path as the document gives them.
RawTraceCoords(d) ==
    IF /\ IsDict(d) /\ HasDictAt(d, "traces") /\ HasDictAt(Lookup(d, "traces"), "t1")
       /\ HasDictAt(Lookup(Lookup(d, "traces"), "t1"), "path")
       /\ HasKey(Lookup(Lookup(Lookup(d, "traces"), "t1"), "path"), "coordinates")
    THEN Lookup(Lookup(Lookup(Lookup(d, "traces"), "t1"), "path"), "coordinates")
    ELSE Absent

\* A coordinate list of no point, or of one point in either spelling.
ZeroPointPath(d) == RawTraceCoords(d) = JList(<<>>)
OnePointPath(d) ==
    /\ RawTraceCoords(d) # Absent
    /\ IsList(RawTraceCoords(d))
    /\ \/ Len(RawTraceCoords(d).items) = 1 /\ AllPairs(RawTraceCoords(d))
       \/ Len(RawTraceCoords(d).items) = 2 /\ AllNumbers(RawTraceCoords(d))

MalformedTraceOf(errs, id) ==
    CountDefect(errs, "MALFORMED_TRACE", <<"$", "traces", id, "path", "coordinates">>)

\* C21: a trace whose path has zero points or one point passes parsing and
\* assembly (parse_board_data returns a Board and no defect) and
\* validate_board then reports exactly one MALFORMED_TRACE defect for it.
C21_ShortPathReachesValidation ==
    (ValidUnit(orig) /\ (ZeroPointPath(orig) \/ OnePointPath(orig))) =>
        /\ ParseCalled => (~parsed.raised /\ board # NoneVal /\ parsed.errors = <<>>)
        /\ pc = "checked" => (~result.raised /\ MalformedTraceOf(result.value, "t1") = 1)

\* The one-point half, which the code keeps.
C21_OnePointReachesValidation ==
    (ValidUnit(orig) /\ OnePointPath(orig)) =>
        /\ ParseCalled => (~parsed.raised /\ board # NoneVal /\ parsed.errors = <<>>)
        /\ pc = "checked" => (~result.raised /\ MalformedTraceOf(result.value, "t1") = 1)

\* A one-point path, parsed, assembled and reported by the validator.
C21_OnePointReported ==
    /\ pc = "checked"
    /\ OnePointPath(orig)
    /\ MalformedTraceOf(result.value, "t1") = 1

\* An empty coordinate list: no Board, one PARSE_ERROR.
C21_EmptyPathParseError ==
    /\ ParseCalled
    /\ ZeroPointPath(orig)
    /\ OnePARSE_ERROR

\* normalize_units returned without a defect.
NormalizeSucceeded == pc \in {"normalized", "renormalized"} /\ ~parsed.raised /\ parsed.errors = <<>>

\* C22: after every normalize_units call that returned no defect the
\* document's metadata.designUnits reads MILLIMETER, and normalizing the
\* returned document again returns it with every value as it was; also for
\* a document without designUnits entry or without metadata object.
C22_NormalizedOnce ==
    /\ NormalizeSucceeded => DeclaredUnit(parsed.data) = JStr("MILLIMETER")
    /\ (NormalizeSucceeded /\ pc = "renormalized") =>
          (~second.raised /\ second.errors = <<>> /\ second.data = parsed.data)

\* The same for the documents that have a metadata object, which the code
\* keeps.
C22_NormalizedOnceWithMetadata ==
    (NormalizeSucceeded /\ HasKey(orig, "metadata")) =>
        /\ DeclaredUnit(parsed.data) = JStr("MILLIMETER")
        /\ pc = "renormalized" =>
              (~second.raised /\ second.errors = <<>> /\ second.data = parsed.data)

\* A document without metadata object normalized twice: the lengths were
\* multiplied by 0.001 both times.
C22_ScaledTwice ==
    /\ pc = "renormalized"
    /\ ~HasKey(orig, "metadata")
    /\ second.data # parsed.data
    /\ DeclaredUnit(second.data) = Absent

\* A MICRON document without designUnits entry normalized twice: scaled once.
C22_DefaultUnitScaledOnce ==
    /\ pc = "renormalized"
    /\ HasKey(orig, "metadata")
    /\ DeclaredUnit(orig) = Absent
    /\ parsed.data # orig
    /\ second.data = parsed.data

\* A keepout of the raw document whose shape is a circle with the center
\* missing or no 2-element list, or the radius missing or no number.
MalformedCircle(k) ==
    /\ HasDictAt(k, "shape")
    /\ Get(Lookup(k, "shape"), "type", NoneVal) = JStr("circle")
    /\ LET center == Get(Lookup(k, "shape"), "center", Absent)
           radius == Get(Lookup(k, "shape"), "radius", Absent)
       IN  \/ ~IsList(center)
           \/ Len(center.items) # 2
           \/ radius.cls \notin {"int", "float"}

\* A keepout whose shape is a circle with two numbers as center and a
\* positive radius.
WellFormedCircle(k) ==
    /\ HasDictAt(k, "shape")
    /\ Get(Lookup(k, "shape"), "type", NoneVal) = JStr("circle")
    /\ LET center == Get(Lookup(k, "shape"), "center", Absent)
           radius == Get(Lookup(k, "shape"), "radius", Absent)
       IN  /\ IsList(center) /\ Len(center.items) = 2 /\ AllNumbers(center)
           /\ radius.cls \in {"int", "float"} /\ radius.n > 0

\* The raw document is the well-formed board but for its keepout list, which
\* holds circles only, one of them malformed.
MalformedCircleDocument(d) ==
    /\ IsDict(d) /\ HasKey(d, "keepouts") /\ IsList(Lookup(d, "keepouts"))
    /\ \E u \in Units : Del(d, "keepouts") = Del(BaseDoc(u), "keepouts")
    /\ \A i \in DOMAIN Lookup(d, "keepouts").items :
          \/ MalformedCircle(Lookup(d, "keepouts").items[i])
          \/ WellFormedCircle(Lookup(d, "keepouts").items[i])
    /\ \E i \in DOMAIN Lookup(d, "keepouts").items :
          MalformedCircle(Lookup(d, "keepouts").items[i])

\* C23: a circle keepout whose center is missing or no 2-element list, or
\* whose radius is missing or no number, ends with shape None; the keepout
\* and every other keepout are built (a valid circle next to it becomes a
\* Circle), and a Board is returned with no parse defect.
C23_MalformedCircleDropped ==
    (ParseCalled /\ MalformedCircleDocument(orig)) =>
        /\ ~parsed.raised
        /\ parsed.errors = <<>>
        /\ board # NoneVal
        /\ Len(board.keepouts) = Len(Lookup(orig, "keepouts").items)
        /\ \A i \in DOMAIN board.keepouts :
              /\ board.keepouts[i].uid = Lookup(Lookup(orig, "keepouts").items[i], "uid").s
              /\ IF MalformedCircle(Lookup(orig, "keepouts").items[i])
                 THEN board.keepouts[i].shape = NoneVal
                 ELSE board.keepouts[i].shape = Circle(P(5, 5), Num(1))

\* A malformed circle keepout next to a valid one: the Board holds both,
\* the first without shape, the second with its Circle.
C23_Witness ==
    /\ ParseCalled
    /\ MalformedCircleDocument(orig)
    /\ board # NoneVal
    /\ Len(board.keepouts) = 2
    /\ board.keepouts[1].shape = NoneVal
    /\ board.keepouts[2].shape = Circle(P(5, 5), Num(1))

\* main has gone through its phases and returned.
MainReturned == pc = "main_exited"

\* Every defect of errs is on stderr.
Printed(errs) ==
    \A i \in DOMAIN errs : \E k \in DOMAIN cli.stderr : cli.stderr[k] = errs[i]

\* The input has a parse defect, or validation reported a defect and
\* --permissive was not given.
Rejected ==
    \/ cli.parse_errors # <<>>
    \/ (cli.validation_errors # <<>> /\ ~cli.permissive)

\* C24: in main, for an input with a parse defect, or without --permissive a
\* validation defect, rendering is never attempted and no output file is
\* written, and main returns 1 with the defects printed on stderr;
\* validate_board runs only after a successful parse, and 0 is returned only
\* after rendering succeeded.
C24_RejectedNeverRendered ==
    /\ Rejected => (~cli.render_attempted /\ ~cli.output_exists)
    /\ (MainReturned /\ Rejected) =>
          /\ cli.exit = Returned(1)
          /\ cli.stderr # <<>>
          /\ Printed(cli.parse_errors)
          /\ Printed(cli.validation_errors)
    /\ cli.validated => (cli.parse_success /\ cli.parse_errors = <<>> /\ board # NoneVal)
    /\ cli.exit = Returned(0) =>
          (cli.render_attempted /\ cli.render_success /\ cli.output_exists)

\* A parse defect: main returned 1, the defect is on stderr, validate_board
\* was not called and nothing was rendered.
C24_Witness ==
    /\ MainReturned
    /\ cli.parse_errors # <<>>
    /\ ~cli.validated
    /\ ~cli.render_attempted
    /\ cli.stderr = cli.parse_errors
    /\ cli.exit = Returned(1)

\* A validation defect without --permissive: main returned 1, the defects
\* are on stderr and nothing was rendered.
C24_ValidationDefectRejected ==
    /\ MainReturned
    /\ ~cli.permissive
    /\ cli.validated
    /\ cli.validation_errors # <<>>
    /\ cli.stderr = cli.validation_errors
    /\ ~cli.output_exists
    /\ cli.exit = Returned(1)

\* A clean board: rendered, 0 returned.
C24_CleanRendered ==
    /\ MainReturned
    /\ cli.validated /\ cli.validation_errors = <<>>
    /\ cli.output_exists
    /\ cli.exit = Returned(0)

\* An exception left main instead of an exit code.
C24_MainRaised == pc = "main_raised"

\* An exception leaves main only out of parse_board_data, never out of
\* validate_board on a parsed Board, and nothing was rendered by then.
C24_RaisedOnlyInParse ==
    pc = "main_raised" => (~cli.validated /\ ~cli.render_attempted /\ ~cli.output_exists)

\* main returned, --permissive was given and the parse succeeded.
PermissiveParsed == MainReturned /\ cli.permissive /\ cli.parse_success

C25_MissingBoundaryNotRendered ==
    /\ PermissiveParsed
    /\ board.boundary = NoneVal
    /\ cli.render_attempted
    /\ ~cli.output_exists
    /\ cli.exit = Returned(1)

\* The board has a boundary with points (the component block is entered and
\* contains_point has a ring to walk).
HasBoundary(b) == b.boundary # NoneVal /\ b.boundary.points # <<>>

\* The stackup's layers are plain name/index maps, as
\* test_validate_component_pin_reference_error builds them.
LayersArePlainMaps(b) ==
    /\ StackupLayers(b) # <<>>
    /\ \A i \in DOMAIN StackupLayers(b) : IsDict(StackupLayers(b)[i])

\* Exactly one INVALID_PIN_REFERENCE defect for every pin with a foreign
\* comp_name, none for a pin with its owner's name.
PinReferencesReported(b, errs) ==
    /\ \A i \in DOMAIN b.components : \A j \in DOMAIN b.components[i].val.pins :
          LET comp_name == b.components[i].key
              comp == b.components[i].val
              pin_name == comp.pins[j].key
              pin == comp.pins[j].val
          IN  CountDefect(errs, "INVALID_PIN_REFERENCE",
                          <<"$", "components", comp_name, "pins", pin_name, "comp_name">>)
                 = IF pin.comp_name # comp.name THEN 1 ELSE 0
    /\ CountCode(errs, "INVALID_PIN_REFERENCE")
          = Sum([i \in 1..Len(b.components) |->
                    Cardinality({j \in DOMAIN b.components[i].val.pins :
                                    b.components[i].val.pins[j].val.comp_name
                                       # b.components[i].val.name})])

\* C26: for a Board with a boundary validate_board returns exactly one
\* INVALID_PIN_REFERENCE defect for every pin whose comp_name differs from
\* the name of its component and none for a pin whose comp_name matches,
\* also for a Board whose stackup layers are plain name/index maps.
C26_PinReference ==
    (pc = "validated" /\ HasBoundary(board)) =>
        /\ ~result.raised
        /\ PinReferencesReported(board, result.value)

\* The same for the boards on which validate_board returns (stackup layers
\* that are Layer objects, or no layers).
C26_PinReferenceWhenReturned ==
    (ValidateReturned /\ HasBoundary(board)) => PinReferencesReported(board, result.value)

\* The board of the test: a boundary, layers as plain maps, a pin naming
\* another component; validate_board raises AttributeError.
C26_PlainMapLayersRaise ==
    /\ pc = "validated"
    /\ HasBoundary(board)
    /\ LayersArePlainMaps(board)
    /\ \E i \in DOMAIN board.components : \E j \in DOMAIN board.components[i].val.pins :
          board.components[i].val.pins[j].val.comp_name # board.components[i].val.name
    /\ result = Raised("AttributeError")

\* validate_board never returns for a stackup of plain maps.
C26_PlainMapLayersNeverReturn ==
    (pc = "validated" /\ LayersArePlainMaps(board)) => result.raised

\* The pin-level NONEXISTENT_NET defects of one pin.
PinNetDefects(errs, comp_name, pin_name) ==
    CountDefect(errs, "NONEXISTENT_NET",
                <<"$", "components", comp_name, "pins", pin_name, "net_name">>)

\* C27: for a Board with a boundary, every pin whose net_name is not the name
\* of a declared net yields exactly one pin-level NONEXISTENT_NET defect
\* (none when it is), and this includes an unconnected pin whose net_name is
\* None or the empty string.
C27_PinNet ==
    (ValidateReturned /\ HasBoundary(board)) =>
        \A i \in DOMAIN board.components : \A j \in DOMAIN board.components[i].val.pins :
            LET pin == board.components[i].val.pins[j]
            IN  PinNetDefects(result.value, board.components[i].key, pin.key)
                   = IF pin.val.net_name \in DeclaredNets(board) THEN 0 ELSE 1

\* A board with a declared net and a component with a pin on that net, a
\* pin with net_name None and a pin with net_name "": the last two are
\* reported once each, the first is not.
C27_Witness ==
    /\ ValidateReturned
    /\ HasBoundary(board)
    /\ \E i \in DOMAIN board.components :
          LET pins == board.components[i].val.pins
              name == board.components[i].key
          IN  /\ \E j \in DOMAIN pins : /\ pins[j].val.net_name = "None"
                                        /\ PinNetDefects(result.value, name, pins[j].key) = 1
              /\ \E j \in DOMAIN pins : /\ pins[j].val.net_name = ""
                                        /\ PinNetDefects(result.value, name, pins[j].key) = 1
              /\ \E j \in DOMAIN pins : /\ pins[j].val.net_name \in DeclaredNets(board)
                                        /\ PinNetDefects(result.value, name, pins[j].key) = 0

\* p and q lie strictly on different sides of the line through a and b.
OppositeSides(a, b, p, q) ==
    \/ Cross(a, b, p) > 0 /\ Cross(a, b, q) < 0
    \/ Cross(a, b, p) < 0 /\ Cross(a, b, q) > 0

\* p is collinear with a and b and lies in the bounding box of the edge ab.
TouchesEdge(a, b, p) ==
    /\ Cross(a, b, p) = 0
    /\ \E lx \in {a.x, b.x} : \E hx \in {a.x, b.x} : lx <= p.x /\ p.x <= hx
    /\ \E ly \in {a.y, b.y} : \E hy \in {a.y, b.y} : ly <= p.y /\ p.y <= hy

\* Edges i and j of the closed ring pts (edge k runs from pts[k] to
\* pts[k+1]) share no endpoint, compared by value, and intersect by proper
\* crossing or by collinear touching.
EdgesFlagged(pts, i, j) ==
    LET a1 == pts[i]
        a2 == pts[i + 1]
        b1 == pts[j]
        b2 == pts[j + 1]
    IN  /\ {a1, a2} \cap {b1, b2} = {}
        /\ \/ OppositeSides(a1, a2, b1, b2) /\ OppositeSides(b1, b2, a1, a2)
           \/ TouchesEdge(a1, a2, b1) \/ TouchesEdge(a1, a2, b2)
           \/ TouchesEdge(b1, b2, a1) \/ TouchesEdge(b1, b2, a2)

\* Some edge of the ring has a vertex of an edge that shares no endpoint
\* with it strictly between its ends.
VertexOnForeignEdge(pts) ==
    \E i \in 1..(Len(pts) - 1) : \E k \in 1..(Len(pts) - 1) :
        /\ pts[k] \notin {pts[i], pts[i + 1]}
        /\ pts[k + 1] \notin {pts[i], pts[i + 1]}
        /\ TouchesEdge(pts[i], pts[i + 1], pts[k])

\* A vertex is visited twice by the ring, the closing point aside.
HasRepeatedVertex(pts) ==
    \E i \in 1..(Len(pts) - 1) : \E k \in 1..(Len(pts) - 1) : i # k /\ pts[i] = pts[k]

\* C28: is_self_intersecting returns true exactly when two edges of the
\* closed polygon share no endpoint (by point value) and intersect, by
\* proper crossing or by collinear touching; so a vertex touching the
\* interior of an edge that shares no endpoint with its own is flagged, and
\* edges that only meet at a repeated vertex are not.
C28_FlaggedPairs ==
    pc = "intersect_done" =>
        LET pts == poly.value.points
        IN  /\ out.value = (\E i \in 1..(Len(pts) - 1) : \E j \in (i + 1)..(Len(pts) - 1) :
                                EdgesFlagged(pts, i, j))
            /\ VertexOnForeignEdge(pts) => out.value = TRUE
            /\ poly.value.points \in {Append(vs, vs[1]) : vs \in RepeatedVertexLists}
                  => out.value = FALSE

\* The square with the vertex (5,0) on its bottom edge: flagged though no
\* two edges cross properly.
C28_Witness ==
    /\ pc = "intersect_done"
    /\ poly = NewPolygon(TouchingVertices)
    /\ VertexOnForeignEdge(poly.value.points)
    /\ ~is_self_intersecting_crossing_only(poly.value)
    /\ out.value = TRUE

\* The two loops pinched at (4,4): the edges meet at the repeated vertex
\* and the polygon is not flagged.
C28_PinchedNotFlagged ==
    /\ pc = "intersect_done"
    /\ poly = NewPolygon(PinchedVertices)
    /\ HasRepeatedVertex(poly.value.points)
    /\ out.value = FALSE

\* Check conditions 3-6 on one trace, 7-9 on one via.
TraceConditionHolds(b, t) ==
    \/ Len(t.path.points) < 2
    \/ t.net_name \notin DeclaredNets(b)
    \/ t.layer_hash \notin DeclaredLayers(b)
    \/ t.width <= 0

ViaConditionHolds(b, v) ==
    \/ v.net_name \notin DeclaredNets(b)
    \/ v.hole_size >= v.diameter
    \/ \E k \in {"start_layer", "end_layer"} :
          k \notin DOMAIN v.span \/ v.span[k] \notin DeclaredLayers(b)

\* Check conditions 11-14 on one component of a board with a boundary.
ComponentConditionHolds(b, c) ==
    \/ contains_point(b.boundary, c.transform.position) # Returned(TRUE)
    \/ ~RotationInRange(c)
    \/ \E j \in DOMAIN c.pins :
          \/ c.pins[j].val.comp_name # c.name
          \/ c.pins[j].val.net_name \notin DeclaredNets(b)

\* Check condition 2: two edges of the boundary that share no endpoint
\* intersect.
BoundaryCrossesItself(b) ==
    \E i \in 1..(Len(b.boundary.points) - 1) : \E j \in (i + 1)..(Len(b.boundary.points) - 1) :
        EdgesFlagged(b.boundary.points, i, j)

\* One of the sixteen check conditions holds on the board.
SomeConditionHolds(b) ==
    \/ b.boundary = NoneVal
    \/ Len(b.boundary.points) < 3
    \/ BoundaryCrossesItself(b)
    \/ \E i \in DOMAIN b.traces : TraceConditionHolds(b, b.traces[i].val)
    \/ \E i \in DOMAIN b.vias : ViaConditionHolds(b, b.vias[i].val)
    \/ (b.components = <<>> /\ b.traces = <<>>)
    \/ \E i \in DOMAIN b.components : ComponentConditionHolds(b, b.components[i].val)
    \/ StackupMalformed(b)

\* C29: an empty list returned by validate_board is a sound clean signal:
\* none of the sixteen check conditions holds on the Board, the
\* boundary-gated ones of components and pins included, since a Board
\* without boundary always yields MISSING_BOUNDARY.
C29_EmptyMeansClean ==
    /\ (ValidateReturned /\ result.value = <<>>) => ~SomeConditionHolds(board)
    /\ (ValidateReturned /\ board.boundary = NoneVal) =>
          HasDefect(result.value, "MISSING_BOUNDARY", <<"$", "boundary">>)

\* A board with a boundary, a component with pins, a trace and a via, on
\* which validate_board returned the empty list.
C29_Witness ==
    /\ ValidateReturned
    /\ result.value = <<>>
    /\ board.components # <<>>
    /\ \E i \in DOMAIN board.components : board.components[i].val.pins # <<>>
    /\ board.traces # <<>>
    /\ board.vias # <<>>
    /\ ~SomeConditionHolds(board)

\* A board without boundary whose component is rotated out of range and
\* whose pin names another component: the list holds MISSING_BOUNDARY and
\* no component defect.
C29_GatedChecksCovered ==
    /\ ValidateReturned
    /\ board.boundary = NoneVal
    /\ \E i \in DOMAIN board.components :
          \/ ~RotationInRange(board.components[i].val)
          \/ \E j \in DOMAIN board.components[i].val.pins :
                board.components[i].val.pins[j].val.comp_name # board.components[i].val.name
    /\ ComponentDefects(result.value) = <<>>
    /\ HasDefect(result.value, "MISSING_BOUNDARY", <<"$", "boundary">>)

\* parse_board_data has been called a second time on the document object
\* of a successful first call.
ParsedTwice == pc = "reparsed"

\* The layers of the document as the first call left them.
LayersLeft(d) ==
    IF HasDictAt(d, "stackup") THEN Get(Lookup(d, "stackup"), "layers", JList(<<>>)).items
    ELSE <<>>

\* C30: parse_board_data does not spoil its input: a second call on the
\* same raw document object that a first successful call received returns
\* an equal Board and no defect, for MICRON and MILLIMETER documents alike.
C30_SecondCallEqual ==
    ParsedTwice =>
        /\ ~second.raised
        /\ second.errors = <<>>
        /\ second.board = board

\* The well-formed MILLIMETER board parsed twice: the second call returns
\* no Board and one PARSE_ERROR, Layer(**layer) having met a Layer object.
C30_SecondCallParseError ==
    /\ ParsedTwice
    /\ orig = BaseDoc("MILLIMETER")
    /\ ~second.raised
    /\ second.board = NoneVal
    /\ second.errors = <<PARSE_ERROR("TypeError")>>

\* The same for the MICRON board.
C30_SecondCallParseErrorMicron ==
    /\ ParsedTwice
    /\ orig = BaseDoc("MICRON")
    /\ second.board = NoneVal
    /\ second.errors = <<PARSE_ERROR("TypeError")>>

\* What the code keeps: the second call never raises, and it fails with one
\* PARSE_ERROR whenever the first call left a Layer object, a component or
\* a via in the document.
C30_SecondCallFailsOnBuiltObjects ==
    ParsedTwice =>
        /\ ~second.raised
        /\ (\/ LayersLeft(parsed.data) # <<>>
            \/ board.components # <<>>
            \/ board.vias # <<>>)
              => (second.board = NoneVal /\ Len(second.errors) = 1
                  /\ second.errors[1].code = "PARSE_ERROR")

=============================================================================
